---- MODULE Spec2Model ----
(***************************************************************************)
(* Lifecycle state machine, quit protocol, error policy and frame driver   *)
(* of ggez's built-in event loop (src/app.rs, src/event.rs).               *)
(*                                                                         *)
(* The host (winit) drives the ApplicationHandler one loop iteration at a  *)
(* time: new_events, then the discrete notifications of the iteration      *)
(* (resumed, suspended, window and device events, in any order and         *)
(* number), then about_to_wait.  event_loop.exit() only sets a flag: the   *)
(* host finishes the iteration it is in and stops after about_to_wait.     *)
(*                                                                         *)
(* The user handler is arbitrary: every callback result (Ok / Err, the     *)
(* boolean of quit_event and of on_error) is an input of the action that   *)
(* invokes it, and a callback may call ctx.request_quit().                 *)
(*                                                                         *)
(* log is the sequence of effects of the handler entry point that ran      *)
(* last: callbacks invoked (with their results), error policy steps,       *)
(* collaborator calls and exit signals, in program order.  It is kept,     *)
(* with the state on entry (pre), until the handler has returned to the    *)
(* host (Return).                                                          *)
(***************************************************************************)
EXTENDS Integers, Sequences, FiniteSets, TLC

\* Most gamepad events the device collaborator has queued when it is polled.
MaxPad == 2

\* Most sounds of one source the playback thread holds at a time, and the
\* value of the play-time counter up to which the playback is followed, in
\* default query intervals.
MaxSounds == 2
MaxPeriods == 4

\* Most microseconds in the fraction of a fade-in time given to set_fade_in.
MaxFade == 3

VARIABLES
    app,            \* the variant GgezApplicationHandler.app holds
    continuing,     \* ContextFields.continuing
    quit_requested, \* ContextFields.quit_requested
    exiting,        \* event_loop.exit() has been called
    pad_queue,      \* events queued in the gamepad collaborator
    hostpc,         \* where the host is in its loop iteration
    last,           \* the entry point that ran and has not returned yet
    pre,            \* the lifecycle state and the Context on its entry
    log,            \* its effects, in program order
    load_count,     \* number of load calls so far
    tick_stopped,   \* new_events of this iteration found continuing false
    quit_outcome,   \* what the last quit_event call of this iteration returned
    event,          \* the window or device event that entry point was given;
                    \* for the frame driver, the gamepad events it found queued
    passed,         \* the arguments of the calls it made, in program order
    overridden,     \* the EventHandler methods the user's handler overrides
    gamepad_attached, \* a gamepad is there to queue events
    mouse,          \* MouseContext: position and delta, if followed
    keyboard,       \* KeyboardContext: pressed and previous keys, if followed
    reset_position, \* the cursor position at the last reset of the delta
    fresh,          \* keys that went from released to pressed since the
                    \* last save of the keyboard state
    fatal_event,    \* on_error has reported fatal for the callback of a
                    \* window or device event of this loop iteration
    play_time,      \* SourceState.play_time, the counter behind elapsed()
    query_interval, \* SourceState.query_interval
    sink,           \* the sounds appended to the sink of the source
    detached,       \* the sounds of the sinks the source has detached
    stopping,       \* the sounds of the sinks the source has dropped that
                    \* the playback thread has not stopped yet
    own_time,       \* what the sounds of the playback of the last play()
                    \* have added to the counter
    by_play,        \* the playback of the source was started by play()
    prev_read,      \* what the read of elapsed() before the last returned
    last_read,      \* what the last read of elapsed() returned
    reset_since,    \* stop() has stored 0 since the last read
    reset_between,  \* stop() stored 0 between the last two reads
    after_stop,     \* stop() has returned Ok and no method has appended a
                    \* sound since
    fade_in,        \* SourceState.fade_in
    applied         \* the fade-in play_later last gave the sound it built,
                    \* for a Source and for a SpatialSource

\* What is fixed when the loop is set up.
config == <<overridden, gamepad_attached>>

\* The state of the event loop, and the state of an audio source.
loop == <<app, continuing, quit_requested, exiting, pad_queue, hostpc, last,
          pre, log, load_count, tick_stopped, quit_outcome, event, passed,
          overridden, gamepad_attached, mouse, keyboard, reset_position,
          fresh, fatal_event>>

source == <<play_time, query_interval, sink, detached, stopping, own_time,
            by_play, prev_read, last_read, reset_since, reset_between,
            after_stop>>

fading == <<fade_in, applied>>

vars == <<loop, source, fading>>

----------------------------------------------------------------------------
(* Vocabulary *)

AppStates == {"Starting", "Running", "Suspended"}

\* Result<(), E> of a callback, and Result<bool, E> of quit_event.
Results == {"Ok", "Err"}
QuitResults == {"Ok(true)", "Ok(false)", "Err"}

\* What the user handler does in one callback: the result res it returns,
\* and fatal, the answer of on_error for that result if it is an error
\* (on_error is not consulted otherwise, and fatal is FALSE).
Outcome(res, fatal) == [res |-> res, fatal |-> fatal]
Outcomes == {Outcome("Ok", FALSE), Outcome("Err", FALSE), Outcome("Err", TRUE)}
QuitOutcomes == {Outcome("Ok(true)", FALSE), Outcome("Ok(false)", FALSE),
                 Outcome("Err", FALSE), Outcome("Err", TRUE)}

\* The kinds of window event the handler tells apart (KeyboardInput and
\* MouseInput by their ElementState).
WindowEventKinds ==
    {"Resized", "CloseRequested", "Focused", "ModifiersChanged",
     "KeyPressed", "KeyReleased", "MouseWheel", "MousePressed",
     "MouseReleased", "CursorMoved", "Touch", "CursorEntered", "CursorLeft",
     "ScaleFactorChanged", "Other"}

DeviceEventKinds == {"MouseMotion", "Other"}

\* Window sizes (PhysicalSize<u32>), raw device deltas (f64, f64) and
\* logical keys the host delivers.
Sizes == {<<800, 600>>, <<0, 16777216>>}
Deltas == {<<1, 0>>, <<0, 2>>}
Keys == {"Escape", "KeyA"}

\* Cursor positions (PhysicalPosition<f64>) the host delivers.
Coords == {0, 1}
Positions == Coords \X Coords

\* The sets of active modifiers (ModifiersState) the host reports.
ModifierSets == {{}, {"Shift"}}

\* The phases of a touch (TouchPhase) and the locations the host delivers
\* with them.
TouchPhases == {"Started", "Moved", "Ended", "Cancelled"}
TouchLocations == {<<1, 0>>, <<0, 1>>}

\* The data an event of a kind carries, as far as the handler reads it
\* (<<>>: none that is followed here).
Payloads(kind) ==
    CASE kind = "Resized"                       -> Sizes
      [] kind = "MouseMotion"                   -> Deltas
      [] kind \in {"KeyPressed", "KeyReleased"} -> {<<k>> : k \in Keys}
      [] kind = "CursorMoved"                   -> Positions
      [] kind = "ModifiersChanged"  -> {<<mods>> : mods \in ModifierSets}
      [] kind = "Touch"
            -> {<<ph, l[1], l[2]>> : ph \in TouchPhases, l \in TouchLocations}
      [] OTHER                                  -> {<<>>}

Event(kind, data) == [kind |-> kind, data |-> data]

WindowEvents ==
    UNION {{Event(k, d) : d \in Payloads(k)} : k \in WindowEventKinds}

DeviceEvents ==
    UNION {{Event(k, d) : d \in Payloads(k)} : k \in DeviceEventKinds}

NoEvent == Event("none", <<>>)

\* `n as f32` of an unsigned integer n below 2^25: exact up to 2^24, and the
\* nearest even integer (ties to the even mantissa) above.
as_f32(n) ==
    IF n <= 16777216 \/ n % 2 = 0 THEN n
    ELSE IF (n + 1) % 4 = 0 THEN n + 1 ELSE n - 1

PadEvents == {"ButtonPressed", "ButtonReleased", "AxisChanged", "Other"}

ErrorOrigin ==
    {"Load", "Update", "Draw", "MouseButtonDownEvent", "MouseButtonUpEvent",
     "MouseMotionEvent", "RawMouseMotionEvent", "MouseEnterOrLeave",
     "MouseWheelEvent", "KeyDownEvent", "KeyUpEvent", "TextInputEvent",
     "TouchEvent", "GamepadButtonDownEvent", "GamepadButtonUpEvent",
     "GamepadAxisEvent", "FocusEvent", "QuitEvent", "ResizeEvent"}

\* The origin that names a callback (the doc comment of each variant).
OriginOf(cb) ==
    CASE cb = "load"                      -> "Load"
      [] cb = "update"                    -> "Update"
      [] cb = "draw"                      -> "Draw"
      [] cb = "mouse_button_down_event"   -> "MouseButtonDownEvent"
      [] cb = "mouse_button_up_event"     -> "MouseButtonUpEvent"
      [] cb = "mouse_motion_event"        -> "MouseMotionEvent"
      [] cb = "raw_mouse_motion_event"    -> "RawMouseMotionEvent"
      [] cb = "mouse_enter_or_leave"      -> "MouseEnterOrLeave"
      [] cb = "mouse_wheel_event"         -> "MouseWheelEvent"
      [] cb = "key_down_event"            -> "KeyDownEvent"
      [] cb = "key_up_event"              -> "KeyUpEvent"
      [] cb = "text_input_event"          -> "TextInputEvent"
      [] cb = "touch_event"               -> "TouchEvent"
      [] cb = "gamepad_button_down_event" -> "GamepadButtonDownEvent"
      [] cb = "gamepad_button_up_event"   -> "GamepadButtonUpEvent"
      [] cb = "gamepad_axis_event"        -> "GamepadAxisEvent"
      [] cb = "focus_event"               -> "FocusEvent"
      [] cb = "quit_event"                -> "QuitEvent"
      [] cb = "resize_event"              -> "ResizeEvent"

\* One effect of a handler: op is the kind, arg the name, res the outcome.
Ev(op, arg, res) == [op |-> op, arg |-> arg, res |-> res]

\* The part of the program state the handlers read and write.
Machine == [continuing |-> continuing, quit_requested |-> quit_requested,
            exiting |-> exiting, pad_queue |-> pad_queue, log |-> <<>>,
            passed |-> <<>>, mouse |-> mouse, keyboard |-> keyboard]

Emit(m, e) == [m EXCEPT !.log = Append(@, e)]

\* event_loop.exit()
exit(m) == [Emit(m, Ev("exit", "", "")) EXCEPT !.exiting = TRUE]

\* event_loop.set_control_flow(ControlFlow::Poll)
set_control_flow(m) == Emit(m, Ev("control_flow", "Poll", ""))

\* self.state.<name>(&mut self.ctx, ..) returning res; req: the callback
\* called ctx.request_quit().
Call(m, name, res, req) ==
    [Emit(m, Ev("cb", name, res)) EXCEPT !.quit_requested = @ \/ req]

\* A call on a sub-context or collaborator of the Context.
Ctx(m, name, res) == Emit(m, Ev("ctx", name, res))

\* The arguments args of the call of name that follows.
Pass(m, name, args) ==
    [m EXCEPT !.passed = Append(@, [name |-> name, args |-> args])]

----------------------------------------------------------------------------
(* The user's handler: EventHandler and its default methods *)

\* The methods of EventHandler.
Methods ==
    {"load", "update", "draw", "mouse_button_down_event",
     "mouse_button_up_event", "mouse_motion_event", "raw_mouse_motion_event",
     "mouse_enter_or_leave", "mouse_wheel_event", "key_down_event",
     "key_up_event", "text_input_event", "touch_event",
     "gamepad_button_down_event", "gamepad_button_up_event",
     "gamepad_axis_event", "focus_event", "quit_event", "resize_event",
     "on_error"}

\* load, update and draw have no default.
Mandatory == {"load", "update", "draw"}

\* Faulty variant: the default on_error reports no error fatal.
default_on_error_NeverFatal == FALSE

\* The default on_error: every error is fatal.
default_on_error == TRUE

\* Faulty variant: the default quit_event cancels the quit.
default_quit_event_Cancels == "Ok(true)"

\* The default quit_event: the quit is not cancelled.
default_quit_event == "Ok(false)"

\* Faulty variant: the default key_down_event requests a quit on every key.
default_key_down_event_AnyKey(key) == [res |-> "Ok", req |-> TRUE]

\* The default key_down_event: Ok, after a quit request if the logical key
\* is Escape.
default_key_down_event(key) == [res |-> "Ok", req |-> key = "Escape"]

\* What on_error may answer.
FatalAnswers ==
    IF "on_error" \in overridden THEN BOOLEAN ELSE {default_on_error}

\* What the callback cb may return, with the answer of on_error to it: a
\* method that is not overridden and not modelled apart returns Ok.
OutcomesOf(cb) ==
    IF cb \in overridden
    THEN {Outcome("Ok", FALSE)} \cup {Outcome("Err", f) : f \in FatalAnswers}
    ELSE {Outcome("Ok", FALSE)}

\* What quit_event may return.
QuitOutcomesOf ==
    IF "quit_event" \in overridden
    THEN {Outcome("Ok(true)", FALSE), Outcome("Ok(false)", FALSE)}
         \cup {Outcome("Err", f) : f \in FatalAnswers}
    ELSE {Outcome(default_quit_event, FALSE)}

\* Whether the callback cb, given args, may call ctx.request_quit().
RequestsOf(cb, args) ==
    IF cb \in overridden THEN BOOLEAN
    ELSE IF cb = "key_down_event"
         THEN {default_key_down_event(args[1]).req}
         ELSE {FALSE}

----------------------------------------------------------------------------
(* The input sub-contexts of the Context, as far as they are followed.     *)
(* Untracked: the specification leaves the sub-context out; every call on  *)
(* it is still an effect of the handler that makes it.                     *)

Untracked == [tracked |-> FALSE]

\* What a read of a sub-context that is left out returns.
Unknown == "?"

InitialMouse == [tracked |-> TRUE, position |-> <<0, 0>>, delta |-> <<0, 0>>,
                 buttons |-> {}]

\* MouseContext::handle_move: the position moves to (x, y) and the change is
\* added to the delta.
handle_move(ms, x, y) ==
    IF ~ms.tracked THEN ms
    ELSE [ms EXCEPT !.position = <<x, y>>,
                    !.delta = <<@[1] + (x - ms.position[1]),
                                @[2] + (y - ms.position[2])>>]

\* MouseContext::position and MouseContext::last_delta.
position(ms) == IF ms.tracked THEN ms.position ELSE <<Unknown, Unknown>>
last_delta(ms) == IF ms.tracked THEN ms.delta ELSE <<Unknown, Unknown>>

\* MouseContext::set_button.
set_button(ms, button, pressed) ==
    IF ~ms.tracked THEN ms
    ELSE [ms EXCEPT !.buttons = IF pressed THEN @ \cup {button}
                                            ELSE @ \ {button}]

\* MouseContext::reset_delta.
reset_delta(ms) ==
    IF ms.tracked THEN [ms EXCEPT !.delta = <<0, 0>>] ELSE ms

\* repeated: the key of the last key event was pressed by it while it was
\* pressed already.
InitialKeyboard == [tracked |-> TRUE, pressed |-> {}, previous |-> {},
                    repeated |-> FALSE, active_modifiers |-> {}]

\* keyboard.active_modifiers = mods
set_active_modifiers(kb, mods) ==
    IF kb.tracked THEN [kb EXCEPT !.active_modifiers = mods] ELSE kb

\* KeyboardContext::set_logical_key.
set_logical_key(kb, key, pressed) ==
    IF ~kb.tracked THEN kb
    ELSE [kb EXCEPT !.pressed = IF pressed THEN @ \cup {key} ELSE @ \ {key},
                    !.repeated = pressed /\ key \in kb.pressed]

\* KeyboardContext::is_key_repeated.
is_key_repeated(kb) == IF kb.tracked THEN kb.repeated ELSE Unknown

\* KeyboardContext::save_keyboard_state: the pressed set becomes the
\* previous set.
save_keyboard_state(kb) ==
    IF kb.tracked THEN [kb EXCEPT !.previous = kb.pressed] ELSE kb

\* KeyboardContext::is_logical_key_just_pressed.
is_key_just_pressed(kb, key) ==
    kb.tracked /\ key \in kb.pressed /\ key \notin kb.previous

----------------------------------------------------------------------------
(* The default touch_event: a touch acts on the mouse model *)

\* The mouse callback the default touch_event invokes for a phase.
TouchCallback(phase) ==
    CASE phase = "Started" -> "mouse_button_down_event"
      [] phase = "Moved"   -> "mouse_motion_event"
      [] OTHER             -> "mouse_button_up_event"

\* Faulty variant: the end of a touch is handled as its start.
default_touch_event_EndPresses(m, phase, x, y, res, req) ==
    LET fx    == as_f32(x)
        fy    == as_f32(y)
        moved == Ctx(Pass([m EXCEPT !.mouse = handle_move(@, fx, fy)],
                          "mouse.handle_move", <<fx, fy>>),
                     "mouse.handle_move", "")
        Set(pressed) ==
            Ctx(Pass([moved EXCEPT !.mouse = set_button(@, "Left", pressed)],
                     "mouse.set_button", <<"Left", pressed>>),
                "mouse.set_button", "")
    IN IF phase = "Moved"
       THEN LET diff == last_delta(moved.mouse)
            IN Call(Pass(moved, "mouse_motion_event",
                         <<fx, fy, diff[1], diff[2]>>),
                    "mouse_motion_event", res, req)
       ELSE Call(Pass(Set(TRUE), "mouse_button_down_event",
                      <<"Left", fx, fy>>),
                 "mouse_button_down_event", res, req)

\* EventHandler::touch_event as the trait defines it.  res, req: the result
\* of the mouse callback it invokes, which is also its own result, and
\* whether that callback called ctx.request_quit().
default_touch_event(m, phase, x, y, res, req) ==
    LET fx    == as_f32(x)
        fy    == as_f32(y)
        moved == Ctx(Pass([m EXCEPT !.mouse = handle_move(@, fx, fy)],
                          "mouse.handle_move", <<fx, fy>>),
                     "mouse.handle_move", "")
        Set(pressed) ==
            Ctx(Pass([moved EXCEPT !.mouse = set_button(@, "Left", pressed)],
                     "mouse.set_button", <<"Left", pressed>>),
                "mouse.set_button", "")
    IN CASE phase = "Started"
              -> Call(Pass(Set(TRUE), "mouse_button_down_event",
                           <<"Left", fx, fy>>),
                      "mouse_button_down_event", res, req)
         [] phase = "Moved"
              -> LET diff == last_delta(moved.mouse)
                 IN Call(Pass(moved, "mouse_motion_event",
                              <<fx, fy, diff[1], diff[2]>>),
                         "mouse_motion_event", res, req)
         [] phase \in {"Ended", "Cancelled"}
              -> Call(Pass(Set(FALSE), "mouse_button_up_event",
                           <<"Left", fx, fy>>),
                      "mouse_button_up_event", res, req)

----------------------------------------------------------------------------
(* AppHandler, every state *)

\* Faulty variant: the error is logged after on_error has decided.
catch_error_AsksBeforeLogging(m, res, origin, fatal) ==
    IF res = "Err"
    THEN LET asked  == Emit(m, Ev("on_error", origin,
                                  IF fatal THEN "true" ELSE "false"))
             logged == Emit(IF fatal THEN exit(asked) ELSE asked,
                            Ev("log", origin, ""))
         IN [m |-> logged, ret |-> fatal]
    ELSE [m |-> m, ret |-> FALSE]

\* Faulty variant: an error stops the loop whatever on_error answers.
catch_error_AlwaysFatal(m, res, origin, fatal) ==
    IF res = "Err"
    THEN LET logged == Emit(m, Ev("log", origin, ""))
             asked  == Emit(logged, Ev("on_error", origin,
                                       IF fatal THEN "true" ELSE "false"))
         IN [m |-> exit(asked), ret |-> TRUE]
    ELSE [m |-> m, ret |-> FALSE]

catch_error(m, res, origin, fatal) ==
    IF res = "Err"
    THEN LET logged == Emit(m, Ev("log", origin, ""))
             asked  == Emit(logged, Ev("on_error", origin,
                                       IF fatal THEN "true" ELSE "false"))
         IN IF fatal THEN [m |-> exit(asked), ret |-> TRUE]
                     ELSE [m |-> asked, ret |-> FALSE]
    ELSE [m |-> m, ret |-> FALSE]

\* Faulty variant: every Ok of quit_event is taken as "do not cancel".
new_events_AnyOkQuits(m, qres, fatal, req) ==
    LET quit ==
          IF m.quit_requested
          THEN LET called  == Call(m, "quit_event", qres, req)
                   cleared == [called EXCEPT !.quit_requested = FALSE]
               IN IF qres \in {"Ok(false)", "Ok(true)"}
                  THEN [cleared EXCEPT !.continuing = FALSE]
                  ELSE LET c == catch_error(cleared, qres, "QuitEvent", fatal)
                       IN IF c.ret THEN exit(c.m) ELSE c.m
          ELSE m
    IN IF ~quit.continuing THEN exit(quit) ELSE set_control_flow(quit)

\* Faulty variant: quit_requested is not cleared after quit_event.
new_events_KeepsFlag(m, qres, fatal, req) ==
    LET quit ==
          IF m.quit_requested
          THEN LET called  == Call(m, "quit_event", qres, req)
               IN IF qres = "Ok(false)"
                  THEN [called EXCEPT !.continuing = FALSE]
                  ELSE LET c == catch_error(called, qres, "QuitEvent", fatal)
                       IN IF c.ret THEN exit(c.m) ELSE c.m
          ELSE m
    IN IF ~quit.continuing THEN exit(quit) ELSE set_control_flow(quit)

\* Faulty variant: a cancelled quit sets continuing.
new_events_CancelRevives(m, qres, fatal, req) ==
    LET quit ==
          IF m.quit_requested
          THEN LET called  == Call(m, "quit_event", qres, req)
                   cleared == [called EXCEPT !.quit_requested = FALSE]
               IN IF qres = "Ok(false)"
                  THEN [cleared EXCEPT !.continuing = FALSE]
                  ELSE IF qres = "Ok(true)"
                  THEN [cleared EXCEPT !.continuing = TRUE]
                  ELSE LET c == catch_error(cleared, qres, "QuitEvent", fatal)
                       IN IF c.ret THEN exit(c.m) ELSE c.m
          ELSE m
    IN IF ~quit.continuing THEN exit(quit) ELSE set_control_flow(quit)

new_events(m, qres, fatal, req) ==
    LET quit ==
          IF m.quit_requested
          THEN LET called  == Call(m, "quit_event", qres, req)
                   cleared == [called EXCEPT !.quit_requested = FALSE]
               IN IF qres = "Ok(false)"
                  THEN [cleared EXCEPT !.continuing = FALSE]
                  ELSE LET c == catch_error(cleared, qres, "QuitEvent", fatal)
                       IN IF c.ret THEN exit(c.m) ELSE c.m
          ELSE m
    IN IF ~quit.continuing THEN exit(quit) ELSE set_control_flow(quit)

\* Faulty variant: the transition drops a pending quit request.
transition_DropsQuitRequest(m) == [m EXCEPT !.quit_requested = FALSE]

\* AppHandler::transition, which resumed and suspended end with: the payload
\* moves to the handler of the next state and nothing else happens.
transition(m) == m

\* Faulty variant: the result of load is dropped.
Starting_resumed_DropsError(m, res, fatal, req) ==
    transition(Call(m, "load", res, req))

\* AppHandler<Starting>::resumed
Starting_resumed(m, res, fatal, req) ==
    transition(catch_error(Call(m, "load", res, req), res, "Load", fatal).m)

----------------------------------------------------------------------------
(* event::process_window_event / process_device_event: the state update    *)
(* that precedes the callback of an event.                                  *)

process_window_event(m, ev) ==
    CASE ev.kind = "Resized"
            -> Ctx(Pass(m, "gfx.resize", ev.data), "gfx.resize", "")
      [] ev.kind = "CursorMoved"
            -> LET x     == as_f32(ev.data[1])
                   y     == as_f32(ev.data[2])
                   moved == [m EXCEPT !.mouse = handle_move(@, x, y)]
               IN Ctx(Pass(moved, "mouse.handle_move", <<x, y>>),
                      "mouse.handle_move", "")
      [] ev.kind \in {"MousePressed", "MouseReleased"}
            -> Ctx(m, "mouse.set_button", "")
      [] ev.kind = "ModifiersChanged"
            -> LET set == [m EXCEPT !.keyboard =
                             set_active_modifiers(@, ev.data[1])]
               IN Ctx(Pass(set, "keyboard.active_modifiers", ev.data),
                      "keyboard.active_modifiers", "")
      [] ev.kind \in {"KeyPressed", "KeyReleased"}
            -> LET pressed == ev.kind = "KeyPressed"
                   set     == [m EXCEPT !.keyboard =
                                 set_logical_key(@, ev.data[1], pressed)]
                   logical == Pass(set, "keyboard.set_logical_key",
                                   <<ev.data[1], pressed>>)
               IN Ctx(Ctx(logical, "keyboard.set_logical_key", ""),
                      "keyboard.set_physical_key", "")
      \* ScaleFactorChanged writes the event's inner_size_writer only, every
      \* other kind nothing.
      [] OTHER                   -> m

process_device_event(m, ev) ==
    IF ev.kind = "MouseMotion"
    THEN Ctx(Pass(m, "mouse.handle_motion", <<ev.data[1], ev.data[2]>>),
             "mouse.handle_motion", "")
    ELSE m

----------------------------------------------------------------------------
(* AppHandler<Running> *)

\* Faulty variant: the key-up arm passes the origin of the key-down arm.
WindowCallback_KeyUpAsKeyDown(ev) ==
    CASE ev = "Resized"       -> <<"resize_event", "ResizeEvent">>
      [] ev = "Focused"       -> <<"focus_event", "FocusEvent">>
      [] ev = "KeyPressed"    -> <<"key_down_event", "KeyDownEvent">>
      [] ev = "KeyReleased"   -> <<"key_up_event", "KeyDownEvent">>
      [] ev = "MouseWheel"    -> <<"mouse_wheel_event", "MouseWheelEvent">>
      [] ev = "MousePressed"  -> <<"mouse_button_down_event", "MouseButtonDownEvent">>
      [] ev = "MouseReleased" -> <<"mouse_button_up_event", "MouseButtonUpEvent">>
      [] ev = "CursorMoved"   -> <<"mouse_motion_event", "MouseMotionEvent">>
      [] ev = "Touch"         -> <<"touch_event", "TouchEvent">>
      [] ev = "CursorEntered" -> <<"mouse_enter_or_leave", "MouseEnterOrLeave">>
      [] ev = "CursorLeft"    -> <<"mouse_enter_or_leave", "MouseEnterOrLeave">>
      [] OTHER                -> <<"", "">>

\* Faulty variant: the error of touch_event is reported with the origin of
\* mouse_button_down_event.
WindowCallback_TouchAsMouseDown(ev) ==
    CASE ev = "Resized"       -> <<"resize_event", "ResizeEvent">>
      [] ev = "Focused"       -> <<"focus_event", "FocusEvent">>
      [] ev = "KeyPressed"    -> <<"key_down_event", "KeyDownEvent">>
      [] ev = "KeyReleased"   -> <<"key_up_event", "KeyUpEvent">>
      [] ev = "MouseWheel"    -> <<"mouse_wheel_event", "MouseWheelEvent">>
      [] ev = "MousePressed"  -> <<"mouse_button_down_event", "MouseButtonDownEvent">>
      [] ev = "MouseReleased" -> <<"mouse_button_up_event", "MouseButtonUpEvent">>
      [] ev = "CursorMoved"   -> <<"mouse_motion_event", "MouseMotionEvent">>
      [] ev = "Touch"         -> <<"touch_event", "MouseButtonDownEvent">>
      [] ev = "CursorEntered" -> <<"mouse_enter_or_leave", "MouseEnterOrLeave">>
      [] ev = "CursorLeft"    -> <<"mouse_enter_or_leave", "MouseEnterOrLeave">>
      [] OTHER                -> <<"", "">>

\* Faulty variant: an event no arm matches is forwarded to focus_event.
WindowCallback_UnmatchedAsFocus(ev) ==
    CASE ev = "Resized"       -> <<"resize_event", "ResizeEvent">>
      [] ev = "Focused"       -> <<"focus_event", "FocusEvent">>
      [] ev = "KeyPressed"    -> <<"key_down_event", "KeyDownEvent">>
      [] ev = "KeyReleased"   -> <<"key_up_event", "KeyUpEvent">>
      [] ev = "MouseWheel"    -> <<"mouse_wheel_event", "MouseWheelEvent">>
      [] ev = "MousePressed"  -> <<"mouse_button_down_event", "MouseButtonDownEvent">>
      [] ev = "MouseReleased" -> <<"mouse_button_up_event", "MouseButtonUpEvent">>
      [] ev = "CursorMoved"   -> <<"mouse_motion_event", "MouseMotionEvent">>
      [] ev = "Touch"         -> <<"touch_event", "TouchEvent">>
      [] ev = "CursorEntered" -> <<"mouse_enter_or_leave", "MouseEnterOrLeave">>
      [] ev = "CursorLeft"    -> <<"mouse_enter_or_leave", "MouseEnterOrLeave">>
      [] OTHER                -> <<"focus_event", "FocusEvent">>

\* The callback a window event is forwarded to, and the origin its result is
\* passed to catch_error with ("" : the event has no callback).
WindowCallback(ev) ==
    CASE ev = "Resized"       -> <<"resize_event", "ResizeEvent">>
      [] ev = "Focused"       -> <<"focus_event", "FocusEvent">>
      [] ev = "KeyPressed"    -> <<"key_down_event", "KeyDownEvent">>
      [] ev = "KeyReleased"   -> <<"key_up_event", "KeyUpEvent">>
      [] ev = "MouseWheel"    -> <<"mouse_wheel_event", "MouseWheelEvent">>
      [] ev = "MousePressed"  -> <<"mouse_button_down_event", "MouseButtonDownEvent">>
      [] ev = "MouseReleased" -> <<"mouse_button_up_event", "MouseButtonUpEvent">>
      [] ev = "CursorMoved"   -> <<"mouse_motion_event", "MouseMotionEvent">>
      [] ev = "Touch"         -> <<"touch_event", "TouchEvent">>
      [] ev = "CursorEntered" -> <<"mouse_enter_or_leave", "MouseEnterOrLeave">>
      [] ev = "CursorLeft"    -> <<"mouse_enter_or_leave", "MouseEnterOrLeave">>
      [] OTHER                -> <<"", "">>

\* Faulty variant: the error of quit_event is dropped on the close-requested path.
close_requested_DropsError(m, qres, fatal, req) ==
    LET called == Call(m, "quit_event", qres, req)
    IN IF qres = "Ok(false)"
       THEN [called EXCEPT !.continuing = FALSE]
       ELSE called

\* Faulty variant: a close request stops the loop whenever quit_event
\* returns without an error.
close_requested_AnyOkQuits(m, qres, fatal, req) ==
    LET called == Call(m, "quit_event", qres, req)
    IN IF qres \in {"Ok(false)", "Ok(true)"}
       THEN [called EXCEPT !.continuing = FALSE]
       ELSE catch_error(called, qres, "QuitEvent", fatal).m

\* The CloseRequested arm of window_event.
close_requested(m, qres, fatal, req) ==
    LET called == Call(m, "quit_event", qres, req)
    IN IF qres = "Ok(false)"
       THEN [called EXCEPT !.continuing = FALSE]
       ELSE catch_error(called, qres, "QuitEvent", fatal).m

\* Faulty variant: resize_event is given the height before the width.
WindowCallbackArgs_SwapsSize(m, ev) ==
    CASE ev.kind = "Resized" -> <<as_f32(ev.data[2]), as_f32(ev.data[1])>>
      [] ev.kind = "KeyPressed"
            -> <<ev.data[1], is_key_repeated(m.keyboard)>>
      [] ev.kind = "KeyReleased" -> <<ev.data[1]>>
      [] ev.kind = "CursorMoved" -> position(m.mouse) \o last_delta(m.mouse)
      [] ev.kind = "Touch" -> ev.data
      [] OTHER -> <<>>

\* Faulty variant: mouse_motion_event is given the position as the delta.
WindowCallbackArgs_PositionAsDelta(m, ev) ==
    CASE ev.kind = "Resized" -> <<as_f32(ev.data[1]), as_f32(ev.data[2])>>
      [] ev.kind = "KeyPressed"
            -> <<ev.data[1], is_key_repeated(m.keyboard)>>
      [] ev.kind = "KeyReleased" -> <<ev.data[1]>>
      [] ev.kind = "CursorMoved" -> position(m.mouse) \o position(m.mouse)
      [] ev.kind = "Touch" -> ev.data
      [] OTHER -> <<>>

\* Faulty variant: key_down_event is told of no repeat.
WindowCallbackArgs_NeverRepeat(m, ev) ==
    CASE ev.kind = "Resized" -> <<as_f32(ev.data[1]), as_f32(ev.data[2])>>
      [] ev.kind = "KeyPressed" -> <<ev.data[1], FALSE>>
      [] ev.kind = "KeyReleased" -> <<ev.data[1]>>
      [] ev.kind = "CursorMoved" -> position(m.mouse) \o last_delta(m.mouse)
      [] ev.kind = "Touch" -> ev.data
      [] OTHER -> <<>>

\* The arguments window_event passes to the callback of the event ev, as
\* far as they are followed here.
WindowCallbackArgs(m, ev) ==
    CASE ev.kind = "Resized" -> <<as_f32(ev.data[1]), as_f32(ev.data[2])>>
      [] ev.kind = "KeyPressed"
            -> <<ev.data[1], is_key_repeated(m.keyboard)>>
      [] ev.kind = "KeyReleased" -> <<ev.data[1]>>
      [] ev.kind = "CursorMoved" -> position(m.mouse) \o last_delta(m.mouse)
      [] ev.kind = "Touch" -> ev.data
      [] OTHER -> <<>>

\* res, req: the result of the callback of the event and whether it called
\* ctx.request_quit(); for a touch handed to the default touch_event, those
\* of the mouse callback it invokes.
window_event(m, ev, res, fatal, req) ==
    LET p  == process_window_event(m, ev)
        cb == WindowCallback(ev.kind)
    IN IF ev.kind = "CloseRequested" THEN close_requested(p, res, fatal, req)
       ELSE IF ev.kind = "ModifiersChanged"
       THEN LET set == [p EXCEPT !.keyboard =
                          set_active_modifiers(@, ev.data[1])]
            IN Ctx(Pass(set, "keyboard.active_modifiers", ev.data),
                   "keyboard.active_modifiers", "")
       ELSE IF cb[1] = "" THEN p
       ELSE LET given == Pass(p, cb[1], WindowCallbackArgs(p, ev))
                body  == IF cb[1] = "touch_event" /\ cb[1] \notin overridden
                         THEN Emit(default_touch_event(
                                     given, ev.data[1], ev.data[2],
                                     ev.data[3], res, req),
                                   Ev("cb", cb[1], res))
                         ELSE Call(given, cb[1], res, req)
            IN catch_error(body, res, cb[2], fatal).m

device_event(m, ev, res, fatal, req) ==
    LET p == process_device_event(m, ev)
    IN IF ev.kind = "MouseMotion"
       THEN LET given == Pass(p, "raw_mouse_motion_event",
                              <<ev.data[1], ev.data[1]>>)
            IN catch_error(Call(given, "raw_mouse_motion_event", res, req),
                           res, "RawMouseMotionEvent", fatal).m
       ELSE p

\* The callback and origin of a queued gamepad event.
PadCallback(ev) ==
    CASE ev = "ButtonPressed"  -> <<"gamepad_button_down_event", "GamepadButtonDownEvent">>
      [] ev = "ButtonReleased" -> <<"gamepad_button_up_event", "GamepadButtonUpEvent">>
      [] ev = "AxisChanged"    -> <<"gamepad_axis_event", "GamepadAxisEvent">>
      [] OTHER                 -> <<"", "">>

\* Faulty variant: one queued event is handled in a tick.
drain_OneEvent(m, os, k) ==
    IF m.pad_queue = <<>>
    THEN [m |-> Ctx(m, "gamepad.next_event", "None"), ret |-> FALSE]
    ELSE LET ev     == Head(m.pad_queue)
             polled == [Ctx(m, "gamepad.next_event", ev)
                          EXCEPT !.pad_queue = Tail(@)]
             cb     == PadCallback(ev)
         IN IF cb[1] = "" THEN [m |-> polled, ret |-> FALSE]
            ELSE catch_error(Call(polled, cb[1], os[k].res, FALSE),
                             os[k].res, cb[2], os[k].fatal)

\* The gamepad drain of about_to_wait.  os[k] is the outcome of the callback
\* of the k-th event polled; ret: a fatal error made about_to_wait return.
RECURSIVE drain(_, _, _)
drain(m, os, k) ==
    IF m.pad_queue = <<>>
    THEN [m |-> Ctx(m, "gamepad.next_event", "None"), ret |-> FALSE]
    ELSE LET ev     == Head(m.pad_queue)
             polled == [Ctx(m, "gamepad.next_event", ev)
                          EXCEPT !.pad_queue = Tail(@)]
             cb     == PadCallback(ev)
         IN IF cb[1] = "" THEN drain(polled, os, k + 1)
            ELSE LET c == catch_error(Call(polled, cb[1], os[k].res, FALSE),
                                      os[k].res, cb[2], os[k].fatal)
                 IN IF c.ret THEN c ELSE drain(c.m, os, k + 1)

\* Faulty variant: a failure of begin_frame is logged and the loop goes on.
begin_frame_NoExit(m, res) ==
    LET called == Ctx(m, "gfx.begin_frame", res)
    IN IF res = "Err" THEN Emit(called, Ev("log", "begin_frame", ""))
       ELSE called

\* GraphicsContext::begin_frame() returning res, and what about_to_wait
\* does with a failure.
begin_frame(m, res) ==
    LET called == Ctx(m, "gfx.begin_frame", res)
    IN IF res = "Err" THEN exit(Emit(called, Ev("log", "begin_frame", "")))
       ELSE called

\* Faulty variant: a draw error reported fatal signals exit and the frame
\* goes on.
draw_FatalContinues(m, o) ==
    LET called == Call(m, "draw", o.res, FALSE)
    IN IF o.res = "Err"
       THEN LET logged == Emit(called, Ev("log", "Draw", ""))
                asked  == Emit(logged, Ev("on_error", "Draw",
                                          IF o.fatal THEN "true" ELSE "false"))
            IN IF o.fatal THEN [m |-> exit(asked), ret |-> FALSE]
                          ELSE [m |-> asked, ret |-> FALSE]
       ELSE [m |-> called, ret |-> FALSE]

\* The draw step of about_to_wait; ret: about_to_wait returns.
draw(m, o) ==
    LET called == Call(m, "draw", o.res, FALSE)
    IN IF o.res = "Err"
       THEN LET logged == Emit(called, Ev("log", "Draw", ""))
                asked  == Emit(logged, Ev("on_error", "Draw",
                                          IF o.fatal THEN "true" ELSE "false"))
            IN IF o.fatal THEN [m |-> exit(asked), ret |-> TRUE]
                          ELSE [m |-> asked, ret |-> FALSE]
       ELSE [m |-> called, ret |-> FALSE]

\* GraphicsContext::end_frame() returning res, and what about_to_wait does
\* with a failure.
end_frame(m, res) ==
    LET called == Ctx(m, "gfx.end_frame", res)
    IN IF res = "Err" THEN exit(Emit(called, Ev("log", "end_frame", "")))
       ELSE called

\* Faulty variant: the mouse delta is reset before and after the snapshots.
reset_and_save_ResetsTwice(m) ==
    LET done == [m EXCEPT !.mouse = reset_delta(@),
                          !.keyboard = save_keyboard_state(@)]
    IN Ctx(Ctx(Ctx(Ctx(done, "mouse.reset_delta", ""),
                   "keyboard.save_keyboard_state", ""),
               "mouse.save_mouse_state", ""),
           "mouse.reset_delta", "")

\* Faulty variant: the keyboard state is not saved.
reset_and_save_KeyboardNotSaved(m) ==
    LET done == [m EXCEPT !.mouse = reset_delta(@)]
    IN Ctx(Ctx(done, "mouse.reset_delta", ""), "mouse.save_mouse_state", "")

\* The end of about_to_wait: the mouse delta is reset and the keyboard and
\* mouse states are saved as the previous states.
reset_and_save(m) ==
    LET done == [m EXCEPT !.mouse = reset_delta(@),
                          !.keyboard = save_keyboard_state(@)]
    IN Ctx(Ctx(Ctx(done, "mouse.reset_delta", ""),
               "keyboard.save_keyboard_state", ""),
           "mouse.save_mouse_state", "")

\* Faulty variant: the frame goes on after a fatal error of update.
about_to_wait_IgnoresUpdateFatal(m, x) ==
    LET ticked  == Ctx(m, "time.tick", "")
        drained == drain(ticked, x.pad, 1)
    IN IF drained.ret THEN drained.m ELSE
    LET upd     == catch_error(Call(drained.m, "update", x.update.res, x.req),
                               x.update.res, "Update", x.update.fatal)
        begun   == begin_frame(upd.m, x.begin_frame)
        drawn   == draw(begun, x.draw)
    IN IF drawn.ret THEN drawn.m ELSE
    LET ended   == end_frame(drawn.m, x.end_frame)
    IN reset_and_save(ended)

\* Faulty variant: update runs after the frame has been drawn.
about_to_wait_UpdateAfterDraw(m, x) ==
    LET ticked  == Ctx(m, "time.tick", "")
        drained == drain(ticked, x.pad, 1)
    IN IF drained.ret THEN drained.m ELSE
    LET begun   == begin_frame(drained.m, x.begin_frame)
        drawn   == draw(begun, x.draw)
    IN IF drawn.ret THEN drawn.m ELSE
    LET ended   == end_frame(drawn.m, x.end_frame)
        upd     == catch_error(Call(ended, "update", x.update.res, x.req),
                               x.update.res, "Update", x.update.fatal)
    IN IF upd.ret THEN upd.m ELSE reset_and_save(upd.m)

\* x.pad, x.update, x.draw: the outcomes of the gamepad callbacks, of update
\* and of draw; x.begin_frame, x.end_frame: the results of the renderer;
\* x.req: update called ctx.request_quit().
about_to_wait(m, x) ==
    LET ticked  == Ctx(m, "time.tick", "")
        drained == drain(ticked, x.pad, 1)
    IN IF drained.ret THEN drained.m ELSE
    LET upd     == catch_error(Call(drained.m, "update", x.update.res, x.req),
                               x.update.res, "Update", x.update.fatal)
    IN IF upd.ret THEN upd.m ELSE
    LET begun   == begin_frame(upd.m, x.begin_frame)
        drawn   == draw(begun, x.draw)
    IN IF drawn.ret THEN drawn.m ELSE
    LET ended   == end_frame(drawn.m, x.end_frame)
    IN reset_and_save(ended)

----------------------------------------------------------------------------
(* GgezApplicationHandler: the entry points the host calls *)

Entry == [app |-> app, continuing |-> continuing,
          quit_requested |-> quit_requested, exiting |-> exiting,
          mouse |-> mouse, keyboard |-> keyboard,
          fatal_event |-> fatal_event]

\* on_error reported an error fatal in the handler that returns m.
ReportedFatal(m) ==
    \E i \in DOMAIN m.log : m.log[i].op = "on_error" /\ m.log[i].res = "true"

\* The handler that returns m reset the mouse delta, saved the keyboard
\* state.
DeltaReset(m) ==
    \E i \in DOMAIN m.log : m.log[i] = Ev("ctx", "mouse.reset_delta", "")
KeyboardSaved(m) ==
    \E i \in DOMAIN m.log :
       m.log[i] = Ev("ctx", "keyboard.save_keyboard_state", "")

\* The keys the handler that returns m set pressed and that were not
\* pressed before.
NewlyPressed(m) ==
    IF ~keyboard.tracked THEN {}
    ELSE {k \in Keys \ keyboard.pressed :
            \E i \in DOMAIN m.passed :
               /\ m.passed[i].name = "keyboard.set_logical_key"
               /\ m.passed[i].args = <<k, TRUE>>}

\* Writes the machine a handler returns back to the state.
Commit(m) ==
    /\ pre' = Entry
    /\ continuing' = m.continuing
    /\ quit_requested' = m.quit_requested
    /\ exiting' = m.exiting
    /\ pad_queue' = m.pad_queue
    /\ log' = m.log
    /\ passed' = m.passed
    /\ mouse' = m.mouse
    /\ keyboard' = m.keyboard
    /\ reset_position' = IF m.mouse.tracked /\ DeltaReset(m)
                         THEN m.mouse.position ELSE reset_position
    /\ fresh' = IF KeyboardSaved(m) THEN {} ELSE fresh \cup NewlyPressed(m)

\* The outcome of the quit_event call of a handler if it made one, and
\* otherwise the outcome old.
QuitOutcome(m, old) ==
    LET calls == {i \in DOMAIN m.log :
                    m.log[i].op = "cb" /\ m.log[i].arg = "quit_event"}
    IN IF calls = {} THEN old
       ELSE m.log[CHOOSE i \in calls : TRUE].res

\* Duration::from_millis: a Duration, as its whole seconds and the
\* microseconds of its fraction.
from_millis(ms) == <<ms \div 1000, (ms % 1000) * 1000>>

\* The query interval of a new source, in milliseconds.
DefaultIntervalMillis == 100

\* The query intervals set_query_interval is called with.
Intervals == {from_millis(DefaultIntervalMillis),
              from_millis(2 * DefaultIntervalMillis)}

\* period_mus of play_later.
period_mus(t) == t[1] * 1000000 + t[2]

\* Duration::from_micros, and the order of Duration with its max and min.
from_micros(us) == <<us \div 1000000, us % 1000000>>
Duration_lt(a, b) == a[1] < b[1] \/ (a[1] = b[1] /\ a[2] < b[2])
Duration_max(a, b) == IF Duration_lt(b, a) THEN a ELSE b
Duration_min(a, b) == IF Duration_lt(b, a) THEN b ELSE a

\* The two kinds of source, and no sound built yet.
SourceKinds == {"Source", "SpatialSource"}
NoSound == [of |-> <<>>, fade |-> <<>>]

\* A source as Source::from_data and SourceState::new leave it: nothing is
\* appended to its sink, the counter is 0 and the query interval 100 ms.
InitSource ==
    /\ play_time = 0
    /\ query_interval = from_millis(DefaultIntervalMillis)
    /\ sink = <<>>
    /\ detached = <<>>
    /\ stopping = <<>>
    /\ own_time = 0
    /\ by_play = FALSE
    /\ prev_read = 0
    /\ last_read = 0
    /\ reset_since = FALSE
    /\ reset_between = FALSE
    /\ after_stop = FALSE
    /\ fade_in = from_millis(0)
    /\ applied = [k \in SourceKinds |-> NoSound]

\* The loop as GgezApplicationHandler::new leaves it (pre is set with the
\* Context), but for quit_requested, which is as the Context given to run
\* has it.
InitHandler ==
    /\ app = "Starting"
    /\ continuing = TRUE
    /\ exiting = FALSE
    /\ pad_queue = <<>>
    /\ hostpc = "new_events"
    /\ last = "none"
    /\ log = <<>>
    /\ load_count = 0
    /\ tick_stopped = FALSE
    /\ quit_outcome = "none"
    /\ event = NoEvent
    /\ passed = <<>>
    /\ reset_position = <<0, 0>>
    /\ fresh = {}
    /\ fatal_event = FALSE
    /\ InitSource

\* The loop given a Context on which no quit has been requested.
InitLoop ==
    /\ InitHandler
    /\ quit_requested = FALSE

\* A handler that overrides every method, with a gamepad; the input
\* sub-contexts are left out.
Init ==
    /\ InitLoop
    /\ overridden = Methods
    /\ gamepad_attached = TRUE
    /\ mouse = Untracked
    /\ keyboard = Untracked
    /\ pre = Entry

\* A handler that keeps the default key_down_event, quit_event and on_error
\* and overrides every other method, with a gamepad; the keyboard is
\* followed.
InitDefault ==
    /\ InitLoop
    /\ overridden = Methods \ {"key_down_event", "quit_event", "on_error"}
    /\ gamepad_attached = TRUE
    /\ mouse = Untracked
    /\ keyboard = InitialKeyboard
    /\ pre = Entry

\* A handler that overrides every method, without a gamepad; the mouse is
\* followed.
InitMouse ==
    /\ InitLoop
    /\ overridden = Methods
    /\ gamepad_attached = FALSE
    /\ mouse = InitialMouse
    /\ keyboard = Untracked
    /\ pre = Entry

\* A handler that overrides every method, without a gamepad; the keyboard
\* is followed.
InitKeys ==
    /\ InitLoop
    /\ overridden = Methods
    /\ gamepad_attached = FALSE
    /\ mouse = Untracked
    /\ keyboard = InitialKeyboard
    /\ pre = Entry

\* A handler that keeps the default touch_event and overrides every other
\* method, without a gamepad; the mouse is followed.
InitTouch ==
    /\ InitLoop
    /\ overridden = Methods \ {"touch_event"}
    /\ gamepad_attached = FALSE
    /\ mouse = InitialMouse
    /\ keyboard = Untracked
    /\ pre = Entry

\* A handler that overrides every method, without a gamepad, given a
\* Context on which request_quit was called before run; the input
\* sub-contexts are left out.
InitPending ==
    /\ InitHandler
    /\ quit_requested = TRUE
    /\ overridden = Methods
    /\ gamepad_attached = FALSE
    /\ mouse = Untracked
    /\ keyboard = Untracked
    /\ pre = Entry

\* The inputs of one handler that can make a difference: an input the
\* handler never reads (the outcome of a callback it does not reach) is kept
\* at its default, so that each behaviour of the handler is drawn once.
OkOutcome == Outcome("Ok", FALSE)

PadSeqs == UNION {[1..n -> PadEvents] : n \in 0..MaxPad}

\* The events a gamepad may have queued since the last drain.
Arrivals == IF gamepad_attached THEN PadSeqs ELSE {<<>>}

\* Outcomes of the gamepad callbacks of a drain of the queue q.
PadOutcomes(q) ==
    {os \in [1..Len(q) -> Outcomes] :
       \A k \in 1..Len(q) :
          /\ IF PadCallback(q[k])[1] \in overridden
             THEN os[k].res = "Err" => os[k].fatal \in FatalAnswers
             ELSE os[k] = OkOutcome
          /\ (q[k] = "Other" \/ \E j \in 1..(k - 1) : os[j].fatal)
                => os[k] = OkOutcome}

\* Outcomes of update, begin_frame, draw and end_frame of one tick.
FrameOutcomes ==
    {x \in [update : OutcomesOf("update"), begin_frame : Results,
             draw : OutcomesOf("draw"), end_frame : Results,
             req : RequestsOf("update", <<>>)] :
       /\ x.update.fatal => /\ x.begin_frame = "Ok" /\ x.draw = OkOutcome
                            /\ x.end_frame = "Ok"
       /\ x.draw.fatal => x.end_frame = "Ok"}

NoFrame == [update |-> OkOutcome, begin_frame |-> "Ok", draw |-> OkOutcome,
            end_frame |-> "Ok", req |-> FALSE]

FrameInputs(q) ==
    {[pad |-> os, update |-> x.update, begin_frame |-> x.begin_frame,
      draw |-> x.draw, end_frame |-> x.end_frame, req |-> x.req] :
        os \in {o \in PadOutcomes(q) : \A k \in 1..Len(q) : ~o[k].fatal},
        x \in FrameOutcomes}
    \cup
    {[pad |-> os, update |-> NoFrame.update,
      begin_frame |-> NoFrame.begin_frame, draw |-> NoFrame.draw,
      end_frame |-> NoFrame.end_frame, req |-> NoFrame.req] :
        os \in {o \in PadOutcomes(q) : \E k \in 1..Len(q) : o[k].fatal}}

\* The callback a window or device event is forwarded to ("": none); for a
\* touch handed to the default touch_event, the mouse callback that one
\* invokes.
EventCallback(ev) ==
    CASE ev.kind = "CloseRequested" -> "quit_event"
      [] ev.kind = "MouseMotion"    -> "raw_mouse_motion_event"
      [] ev.kind = "Touch" /\ "touch_event" \notin overridden
                                    -> TouchCallback(ev.data[1])
      [] OTHER                      -> WindowCallback(ev.kind)[1]

\* What the callback of the event ev may return.
EventOutcomes(ev) ==
    IF ev.kind = "CloseRequested" THEN QuitOutcomesOf
    ELSE OutcomesOf(EventCallback(ev))

NewEvents ==
    /\ last = "none"
    /\ hostpc = "new_events"
    /\ \E o \in QuitOutcomesOf, req \in RequestsOf("quit_event", <<>>) :
         LET m == new_events(Machine, o.res, o.fatal, req)
         IN /\ Commit(m)
            /\ tick_stopped' = ~m.continuing
            /\ quit_outcome' = QuitOutcome(m, "none")
    /\ hostpc' = "events"
    /\ last' = "new_events"
    /\ UNCHANGED <<app, load_count, event, config,
                   fatal_event,
                   source, fading>>

\* Faulty variant: the application taken out of the slot is not put back.
insert_LeavesEmpty(next) == "None"

\* self.app.insert(next), after self.app.take() has emptied the slot: the slot
\* holds the application next.
insert(next) == next

\* Faulty variant: resumed runs the Starting handler in every state.
Resumed_AlwaysLoads ==
    /\ last = "none"
    /\ hostpc = "events"
    /\ \E o \in OutcomesOf("load"), req \in RequestsOf("load", <<>>) :
         Commit(Starting_resumed(Machine, o.res, o.fatal, req))
    /\ app' = insert("Running")
    /\ load_count' = load_count + 1
    /\ last' = "resumed"
    /\ UNCHANGED <<hostpc, tick_stopped, quit_outcome, event, config,
                   fatal_event,
                   source, fading>>

Resumed ==
    /\ last = "none"
    /\ hostpc = "events"
    /\ \/ /\ app = "Starting"
          /\ \E o \in OutcomesOf("load"), req \in RequestsOf("load", <<>>) :
               Commit(Starting_resumed(Machine, o.res, o.fatal, req))
          /\ app' = insert("Running")
          /\ load_count' = load_count + 1
       \/ /\ app = "Suspended"
          /\ Commit(transition(Machine))
          /\ app' = insert("Running")
          /\ UNCHANGED load_count
       \/ /\ app = "Running"
          /\ Commit(Machine)
          /\ app' = insert(app)
          /\ UNCHANGED load_count
    /\ last' = "resumed"
    /\ UNCHANGED <<hostpc, tick_stopped, quit_outcome, event, config,
                   fatal_event,
                   source, fading>>

Suspended ==
    /\ last = "none"
    /\ hostpc = "events"
    /\ \/ /\ app = "Running"
          /\ Commit(transition(Machine))
          /\ app' = insert("Suspended")
       \/ /\ app # "Running"
          /\ Commit(Machine)
          /\ app' = insert(app)
    /\ last' = "suspended"
    /\ UNCHANGED <<hostpc, load_count, tick_stopped, quit_outcome, event,
                   config,
                   fatal_event,
                   source, fading>>

\* Faulty variant: window events are forwarded in every state.
WindowEvent_AnyState ==
    /\ last = "none"
    /\ hostpc = "events"
    /\ \E ev \in WindowEvents :
       \E o \in EventOutcomes(ev),
          req \in RequestsOf(EventCallback(ev), ev.data) :
         LET m == window_event(Machine, ev, o.res, o.fatal, req)
         IN /\ Commit(m)
            /\ quit_outcome' = QuitOutcome(m, quit_outcome)
            /\ event' = ev
            /\ fatal_event' = (fatal_event \/ ReportedFatal(m))
    /\ last' = "window_event"
    /\ UNCHANGED <<app, hostpc, load_count, tick_stopped, config,
                   source, fading>>

\* Faulty variant: the state update of a window event runs in every state.
WindowEvent_UpdatesAnyState ==
    /\ last = "none"
    /\ hostpc = "events"
    /\ \/ /\ app = "Running"
          /\ \E ev \in WindowEvents :
             \E o \in EventOutcomes(ev),
                req \in RequestsOf(EventCallback(ev), ev.data) :
               LET m == window_event(Machine, ev, o.res, o.fatal, req)
               IN /\ Commit(m)
                  /\ quit_outcome' = QuitOutcome(m, quit_outcome)
                  /\ event' = ev
                  /\ fatal_event' = (fatal_event \/ ReportedFatal(m))
       \/ /\ app # "Running"
          /\ \E ev \in WindowEvents :
               /\ event' = ev
               /\ Commit(process_window_event(Machine, ev))
          /\ UNCHANGED <<quit_outcome, fatal_event>>
    /\ last' = "window_event"
    /\ UNCHANGED <<app, hostpc, load_count, tick_stopped, config,
                   source, fading>>

WindowEvent ==
    /\ last = "none"
    /\ hostpc = "events"
    /\ \/ /\ app = "Running"
          /\ \E ev \in WindowEvents :
             \E o \in EventOutcomes(ev),
                req \in RequestsOf(EventCallback(ev), ev.data) :
               LET m == window_event(Machine, ev, o.res, o.fatal, req)
               IN /\ Commit(m)
                  /\ quit_outcome' = QuitOutcome(m, quit_outcome)
                  /\ event' = ev
                  /\ fatal_event' = (fatal_event \/ ReportedFatal(m))
       \/ /\ app # "Running"
          /\ \E ev \in WindowEvents : event' = ev
          /\ Commit(Machine)
          /\ UNCHANGED <<quit_outcome, fatal_event>>
    /\ last' = "window_event"
    /\ UNCHANGED <<app, hostpc, load_count, tick_stopped, config,
                   source, fading>>

\* Faulty variant: device events are forwarded in every state.
DeviceEvent_AnyState ==
    /\ last = "none"
    /\ hostpc = "events"
    /\ \E ev \in DeviceEvents :
       \E o \in EventOutcomes(ev),
          req \in RequestsOf(EventCallback(ev), ev.data) :
         LET m == device_event(Machine, ev, o.res, o.fatal, req)
         IN /\ Commit(m)
            /\ event' = ev
            /\ fatal_event' = (fatal_event \/ ReportedFatal(m))
    /\ last' = "device_event"
    /\ UNCHANGED <<app, hostpc, load_count, tick_stopped, quit_outcome,
                   config,
                   source, fading>>

DeviceEvent ==
    /\ last = "none"
    /\ hostpc = "events"
    /\ \/ /\ app = "Running"
          /\ \E ev \in DeviceEvents :
             \E o \in EventOutcomes(ev),
                req \in RequestsOf(EventCallback(ev), ev.data) :
               LET m == device_event(Machine, ev, o.res, o.fatal, req)
               IN /\ Commit(m)
                  /\ event' = ev
                  /\ fatal_event' = (fatal_event \/ ReportedFatal(m))
       \/ /\ app # "Running"
          /\ \E ev \in DeviceEvents : event' = ev
          /\ Commit(Machine)
          /\ UNCHANGED fatal_event
    /\ last' = "device_event"
    /\ UNCHANGED <<app, hostpc, load_count, tick_stopped, quit_outcome,
                   config,
                   source, fading>>

\* Faulty variant: the frame driver runs in every state.
AboutToWait_AnyState ==
    /\ last = "none"
    /\ hostpc = "events"
    /\ \E q \in Arrivals :
         /\ Len(pad_queue) + Len(q) <= MaxPad
         /\ \E x \in FrameInputs(pad_queue \o q) :
              Commit(about_to_wait([Machine EXCEPT !.pad_queue = @ \o q], x))
         /\ event' = Event("Gamepad", pad_queue \o q)
    /\ hostpc' = IF exiting' THEN "exited" ELSE "new_events"
    /\ last' = "about_to_wait"
    /\ UNCHANGED <<app, load_count, tick_stopped, quit_outcome,
                   config,
                   fatal_event,
                   source, fading>>

\* q: the events the gamepad collaborator has queued since the last drain.
AboutToWait ==
    /\ last = "none"
    /\ hostpc = "events"
    /\ \/ /\ app = "Running"
          /\ \E q \in Arrivals :
               /\ Len(pad_queue) + Len(q) <= MaxPad
               /\ \E x \in FrameInputs(pad_queue \o q) :
                    Commit(about_to_wait(
                             [Machine EXCEPT !.pad_queue = @ \o q], x))
               /\ event' = Event("Gamepad", pad_queue \o q)
       \/ /\ app # "Running"
          /\ Commit(Machine)
          /\ UNCHANGED event
    /\ hostpc' = IF exiting' THEN "exited" ELSE "new_events"
    /\ last' = "about_to_wait"
    /\ UNCHANGED <<app, load_count, tick_stopped, quit_outcome,
                   config,
                   fatal_event,
                   source, fading>>

\* The handler returns to the host.
Return ==
    /\ last # "none"
    /\ last' = "none"
    /\ log' = <<>>
    /\ passed' = <<>>
    /\ event' = NoEvent
    /\ pre' = Entry
    /\ UNCHANGED <<app, continuing, quit_requested, exiting, pad_queue,
                   hostpc, load_count, tick_stopped, quit_outcome, config,
                   mouse, keyboard, reset_position, fresh, fatal_event,
                   source, fading>>

Next ==
    \/ Return
    \/ NewEvents
    \/ Resumed
    \/ Suspended
    \/ WindowEvent
    \/ DeviceEvent
    \/ AboutToWait

Spec == Init /\ [][Next]_vars

SpecDefault == InitDefault /\ [][Next]_vars

SpecMouse == InitMouse /\ [][Next]_vars

SpecKeys == InitKeys /\ [][Next]_vars

SpecTouch == InitTouch /\ [][Next]_vars

SpecPending == InitPending /\ [][Next]_vars

----------------------------------------------------------------------------
(* Audio sources (src/audio.rs): Source and SpatialSource share the code   *)
(* of the operations below, which differ in the kind of sink and in the    *)
(* fade-in play_later gives a sound (further below).                       *)
(*                                                                         *)
(* The main thread calls the methods of the source.  The sounds appended   *)
(* to a sink are played by the playback thread, which calls the closure    *)
(* given to periodic_access once per query interval of a sound that is     *)
(* playing.  Every closure holds a clone of the Arc of the one counter     *)
(* state.play_time.  A sink that is dropped asks the playback thread to    *)
(* stop its sounds, which play on until that thread has seen the request;  *)
(* a sink that is detached plays its sounds to their end.  A sound that    *)
(* repeats or is paused is one whose end or next access has not come.      *)

\* A sound appended to a sink: the period its closure adds at each access,
\* and own: it belongs to the playback the last play() started.
Sound(period, own) == [period |-> period, own |-> own]

\* Faulty variant: the closure stores the period in the counter.
fetch_add_Stores(counter, period) == period

\* counter.fetch_add(period_mus, Ordering::SeqCst) of the closure: the new
\* value of the counter.
fetch_add(counter, period) == counter + period

\* The source the methods read and write; ret is what the method returns.
TheSource == [sink |-> sink, detached |-> detached, stopping |-> stopping,
              play_time |-> play_time, ret |-> "Ok"]

\* SoundSource::play_later: a sound built from the state is appended to the
\* sink.  (The data was decoded once when the source was made, so that
\* Decoder::new does not fail here.)
play_later(s, own) ==
    [s EXCEPT !.sink = Append(@, Sound(period_mus(query_interval), own)),
              !.ret = "Ok"]

\* SoundSource::stop: the sink is replaced by a new one, which drops the old
\* one, and 0 is stored in the counter.  dev: the result of Sink::try_new.
stop(s, dev) ==
    IF dev = "Err" THEN [s EXCEPT !.ret = "Err"]
    ELSE [s EXCEPT !.stopping = @ \o s.sink, !.sink = <<>>,
                   !.play_time = 0, !.ret = "Ok"]

\* SoundSource::play: stop, then play_later.
play(s, dev) ==
    LET stopped == stop(s, dev)
    IN IF stopped.ret = "Err" THEN stopped ELSE play_later(stopped, TRUE)

\* SoundSource::play_detached: stop, play_later, and the sink is replaced by
\* a new one and detached.  dev, dev2: the results of the two Sink::try_new.
play_detached(s, dev, dev2) ==
    LET stopped == stop(s, dev)
    IN IF stopped.ret = "Err" THEN stopped
       ELSE LET played == play_later(stopped, FALSE)
            IN IF dev2 = "Err" THEN [played EXCEPT !.ret = "Err"]
               ELSE [played EXCEPT !.detached = @ \o played.sink,
                                   !.sink = <<>>]

\* SourceState::elapsed: the counter, in microseconds.
elapsed(s) == s.play_time

\* No sound of q belongs to the playback of the last play() any more.
Disown(q) == [i \in DOMAIN q |-> [q[i] EXCEPT !.own = FALSE]]

\* q without its i-th sound.
Without(q, i) == SubSeq(q, 1, i - 1) \o SubSeq(q, i + 1, Len(q))

\* The sounds the playback thread still plays or holds.
Sounds == Len(sink) + Len(detached) + Len(stopping)

\* Writes the source a method returns back to the state.
Store(s) ==
    /\ sink' = s.sink
    /\ detached' = s.detached
    /\ stopping' = s.stopping
    /\ play_time' = s.play_time

SetQueryInterval ==
    /\ \E t \in Intervals : query_interval' = t
    /\ UNCHANGED <<loop, fading, play_time, sink, detached, stopping, own_time,
                   by_play, prev_read, last_read, reset_since, reset_between,
                   after_stop>>

PlayLater ==
    /\ Sounds < MaxSounds
    /\ Store(play_later(TheSource, by_play))
    /\ after_stop' = FALSE
    /\ UNCHANGED <<loop, fading, query_interval, own_time, by_play, prev_read,
                   last_read, reset_since, reset_between>>

\* The playback the last play() started is over once stop() has replaced the
\* sink: its sounds are followed as sounds of no playback from then on.
Stop ==
    /\ \E dev \in Results :
         LET s == stop(TheSource, dev)
         IN IF s.ret = "Err"
            THEN /\ Store(s)
                 /\ UNCHANGED <<own_time, by_play, reset_since, after_stop>>
            ELSE /\ Store([s EXCEPT !.detached = Disown(@),
                                    !.stopping = Disown(@)])
                 /\ own_time' = 0
                 /\ by_play' = FALSE
                 /\ reset_since' = TRUE
                 /\ after_stop' = TRUE
    /\ UNCHANGED <<loop, fading, query_interval, prev_read, last_read, reset_between>>

Play ==
    /\ Sounds < MaxSounds
    /\ \E dev \in Results :
         LET s == play(TheSource, dev)
         IN IF s.ret = "Err"
            THEN /\ Store(s)
                 /\ UNCHANGED <<own_time, by_play, reset_since, after_stop>>
            ELSE /\ Store([s EXCEPT !.detached = Disown(@),
                                    !.stopping = Disown(@)])
                 /\ own_time' = 0
                 /\ by_play' = TRUE
                 /\ reset_since' = TRUE
                 /\ after_stop' = FALSE
    /\ UNCHANGED <<loop, fading, query_interval, prev_read, last_read, reset_between>>

PlayDetached ==
    /\ Sounds < MaxSounds
    /\ \E dev \in Results, dev2 \in Results :
         LET s == play_detached(TheSource, dev, dev2)
         IN IF dev = "Err"
            THEN /\ Store(s)
                 /\ UNCHANGED <<own_time, by_play, reset_since, after_stop>>
            ELSE /\ Store([s EXCEPT !.detached = Disown(@),
                                    !.stopping = Disown(@)])
                 /\ own_time' = 0
                 /\ by_play' = FALSE
                 /\ reset_since' = TRUE
                 /\ after_stop' = FALSE
    /\ UNCHANGED <<loop, fading, query_interval, prev_read, last_read, reset_between>>

\* The main thread reads the counter.
Elapsed ==
    /\ prev_read' = last_read
    /\ last_read' = elapsed(TheSource)
    /\ reset_between' = reset_since
    /\ reset_since' = FALSE
    /\ UNCHANGED <<loop, fading, play_time, query_interval, sink, detached,
                   stopping, own_time, by_play, after_stop>>

\* The playback thread runs the closure of the sound snd.
Access(snd) ==
    /\ fetch_add(play_time, snd.period)
          <= MaxPeriods * period_mus(from_millis(DefaultIntervalMillis))
    /\ play_time' = fetch_add(play_time, snd.period)
    /\ own_time' = IF snd.own THEN own_time + snd.period ELSE own_time
    /\ UNCHANGED <<loop, fading, query_interval, sink, detached, stopping, by_play,
                   prev_read, last_read, reset_since, reset_between,
                   after_stop>>

\* The sound at the head of the sink is the one that plays.
AccessPlaying ==
    /\ sink # <<>>
    /\ Access(Head(sink))

AccessDetached ==
    \E i \in DOMAIN detached : Access(detached[i])

\* A sound of a dropped sink that the playback thread has not stopped yet.
AccessStopping ==
    \E i \in DOMAIN stopping : Access(stopping[i])

\* A sound comes to its end.
SoundEnds ==
    /\ \/ /\ sink # <<>>
          /\ sink' = Tail(sink)
          /\ UNCHANGED detached
       \/ /\ \E i \in DOMAIN detached : detached' = Without(detached, i)
          /\ UNCHANGED sink
    /\ UNCHANGED <<loop, fading, play_time, query_interval, stopping, own_time,
                   by_play, prev_read, last_read, reset_since, reset_between,
                   after_stop>>

\* The playback thread sees that the sink of a sound was dropped.
SoundStopped ==
    /\ \E i \in DOMAIN stopping : stopping' = Without(stopping, i)
    /\ UNCHANGED <<loop, fading, play_time, query_interval, sink, detached, own_time,
                   by_play, prev_read, last_read, reset_since, reset_between,
                   after_stop>>

NextAudio ==
    \/ SetQueryInterval
    \/ PlayLater
    \/ Stop
    \/ Play
    \/ PlayDetached
    \/ Elapsed
    \/ AccessPlaying
    \/ AccessDetached
    \/ AccessStopping
    \/ SoundEnds
    \/ SoundStopped

\* A source that has just been made, outside the loop.
SpecAudio == Init /\ [][NextAudio]_vars

----------------------------------------------------------------------------
(* The fade-in of a sound *)

\* The fade-in times set_fade_in is called with.
FadeIns == {<<secs, us>> : secs \in 0..1, us \in 0..MaxFade}

\* The fade_in play_later computes from state.fade_in and hands to
\* rodio's fade_in: Source takes the longer of the configured time and one
\* microsecond, SpatialSource the shorter.
effective_fade_in(kind, d) ==
    IF kind = "Source" THEN Duration_max(d, from_micros(1))
                       ELSE Duration_min(d, from_micros(1))

\* SoundSource::set_fade_in
SetFadeIn ==
    /\ \E d \in FadeIns : fade_in' = d
    /\ UNCHANGED <<loop, source, applied>>

\* play_later of a Source, of a SpatialSource, as far as the fade-in goes.
PlayLaterSource ==
    /\ applied' = [applied EXCEPT !["Source"] =
                     [of |-> fade_in,
                      fade |-> effective_fade_in("Source", fade_in)]]
    /\ UNCHANGED <<loop, source, fade_in>>

PlayLaterSpatial ==
    /\ applied' = [applied EXCEPT !["SpatialSource"] =
                     [of |-> fade_in,
                      fade |-> effective_fade_in("SpatialSource", fade_in)]]
    /\ UNCHANGED <<loop, source, fade_in>>

NextFade ==
    \/ SetFadeIn
    \/ PlayLaterSource
    \/ PlayLaterSpatial

\* A Source and a SpatialSource that have just been made, given the same
\* fade-in times.
SpecFade == Init /\ [][NextFade]_vars

----------------------------------------------------------------------------
(* Reading the effects of the handler that ran last *)

Entries(op) == {i \in DOMAIN log : log[i].op = op}

\* The callback name was invoked.
Invoked(name) == \E i \in Entries("cb") : log[i].arg = name

\* quit_event was invoked and returned r.
QuitReturned(r) == \E i \in Entries("cb") : log[i] = Ev("cb", "quit_event", r)

NoCallback == Entries("cb") = {}

ExitSignalled == Entries("exit") # {}

\* on_error was asked and answered b.
OnErrorAnswered(b) ==
    \E i \in Entries("on_error") : log[i].res = (IF b THEN "true" ELSE "false")

RendererFailed ==
    \E i \in Entries("ctx") :
       log[i].arg \in {"gfx.begin_frame", "gfx.end_frame"} /\ log[i].res = "Err"

\* The handler left the lifecycle state, the two flags and the exit signal
\* as it found them.
Untouched ==
    /\ app = pre.app
    /\ continuing = pre.continuing
    /\ quit_requested = pre.quit_requested
    /\ exiting = pre.exiting

TypeOK ==
    /\ app \in AppStates
    /\ continuing \in BOOLEAN /\ quit_requested \in BOOLEAN
    /\ exiting \in BOOLEAN
    /\ hostpc \in {"new_events", "events", "exited"}
    /\ last \in {"none", "new_events", "resumed", "suspended", "window_event",
                  "device_event", "about_to_wait"}
    /\ quit_outcome \in QuitResults \cup {"none"}
    /\ Len(pad_queue) <= MaxPad

----------------------------------------------------------------------------
(* Lifecycle *)

\* C1: the resumed received in Starting moves the machine to Running and
\* invokes load exactly once; a resumed received in Running changes nothing
\* and invokes no callback; load is invoked at most once over the run, and
\* by nothing but the resumed received in Starting.
C1_LoadOnce ==
    /\ load_count <= 1
    /\ Invoked("load") => last = "resumed" /\ pre.app = "Starting"
    /\ (last = "resumed" /\ pre.app = "Starting")
          => /\ app = "Running"
             /\ Cardinality({i \in Entries("cb") : log[i].arg = "load"}) = 1
             /\ load_count = 1
    /\ (last = "resumed" /\ pre.app = "Running")
          => Untouched /\ log = <<>> /\ load_count = 1

\* A second resumed, received while Running after load has run.
C1_Witness ==
    last = "resumed" /\ pre.app = "Running" /\ load_count = 1

\* C2: a window or device event delivered in Starting or Suspended is
\* dropped: no callback, no error policy, no exit signal, no state change;
\* a callback is invoked for an event only when the machine is Running.
C2_EventsOnlyWhileRunning ==
    last \in {"window_event", "device_event"}
       => /\ pre.app # "Running" => log = <<>> /\ Untouched
          /\ ~NoCallback => pre.app = "Running"

\* A window event dropped in Suspended while a quit request is pending.
C2_Witness ==
    /\ last = "window_event" /\ pre.app = "Suspended"
    /\ log = <<>> /\ pre.quit_requested

\* C3: about_to_wait received in Starting or Suspended runs nothing of the
\* frame driver: no clock tick, no gamepad poll, no update or draw, no
\* renderer call, no delta reset or state commit; these happen only in an
\* about_to_wait received while Running.
C3_FrameDriverOnlyWhileRunning ==
    /\ (last = "about_to_wait" /\ pre.app # "Running")
          => log = <<>> /\ Untouched
    /\ (\/ Invoked("update") \/ Invoked("draw")
        \/ \E i \in Entries("ctx") :
              log[i].arg \in {"time.tick", "gamepad.next_event",
                              "gfx.begin_frame", "gfx.end_frame",
                              "mouse.reset_delta",
                              "keyboard.save_keyboard_state",
                              "mouse.save_mouse_state"})
          => last = "about_to_wait" /\ pre.app = "Running"

\* The frame driver notification arrives while Suspended with a quit pending.
C3_Witness ==
    /\ last = "about_to_wait" /\ pre.app = "Suspended" /\ log = <<>>
    /\ quit_requested

----------------------------------------------------------------------------
(* Quit protocol *)

QuitRan == Invoked("quit_event")

\* The frame driver was not cut short by a fatal gamepad callback error.
DrainCompleted ==
    \E i \in Entries("ctx") : log[i] = Ev("ctx", "gamepad.next_event", "None")

\* update returned an error that on_error reported fatal.
UpdateFatal ==
    \E i \in Entries("on_error") : log[i] = Ev("on_error", "Update", "true")

\* C4: when the quit protocol runs, on either path, with continuing true
\* and quit_event returns Ok(true), continuing stays true and no loop exit
\* is signalled; and the frame driver of a tick in which a quit was
\* cancelled, running in Running, still invokes update and draw (each unless
\* a callback error reported fatal has ended that frame before it).
C4_CancelledQuitKeepsRunning ==
    /\ (QuitReturned("Ok(true)") /\ pre.continuing)
          => continuing /\ ~ExitSignalled /\ exiting = pre.exiting
    /\ (last = "about_to_wait" /\ pre.app = "Running"
           /\ quit_outcome = "Ok(true)")
          => /\ DrainCompleted => Invoked("update")
             /\ (DrainCompleted /\ ~UpdateFatal) => Invoked("draw")

\* A quit cancelled at tick start, and the frame of that tick drawn.
C4_Witness ==
    /\ last = "about_to_wait" /\ quit_outcome = "Ok(true)"
    /\ Invoked("update") /\ Invoked("draw")
    /\ continuing /\ ~exiting

\* C5: once quit_event has returned Ok(false), on either path, continuing
\* is false and neither update nor draw is invoked any more, the frame
\* driver of the same tick included.
C5_AcceptedQuitStopsFrames ==
    /\ QuitReturned("Ok(false)") => ~continuing
    /\ (last = "about_to_wait" /\ quit_outcome = "Ok(false)")
          => ~Invoked("update") /\ ~Invoked("draw")

\* C6 as claimed: after the quit protocol has run, on either path,
\* quit_requested is false.
C6_FlagClearedOnBothPaths ==
    QuitRan => ~quit_requested

\* C6 as amended: after new_events quit_requested is false, whatever
\* quit_event returned, and quit_event was called once if the flag was set
\* on entry and not at all otherwise; the close-requested path calls
\* quit_event once and does not clear the flag, so that a request pending
\* on entry is still pending on return.
C6_FlagClearedAtTickStart ==
    /\ last = "new_events"
          => /\ ~quit_requested
             /\ Cardinality({i \in Entries("cb") : log[i].arg = "quit_event"})
                  = (IF pre.quit_requested THEN 1 ELSE 0)
    /\ (last = "window_event" /\ QuitRan)
          => /\ Cardinality({i \in Entries("cb") : log[i].arg = "quit_event"}) = 1
             /\ pre.quit_requested => quit_requested

\* A quit cancelled at tick start: the flag is cleared and not set again.
C6_Witness ==
    /\ last = "new_events" /\ QuitReturned("Ok(true)")
    /\ pre.quit_requested /\ ~quit_requested

\* C7: when quit_event returns Err, on either path, on_error is invoked
\* once, with origin QuitEvent; if it answers fatal, exit is signalled by
\* that handler; if it answers non-fatal, continuing is unchanged and no
\* exit is signalled (continuing being true).
C7_QuitEventError ==
    QuitReturned("Err")
       => /\ Cardinality(Entries("on_error")) = 1
          /\ \A i \in Entries("on_error") : log[i].arg = "QuitEvent"
          /\ OnErrorAnswered(TRUE) => ExitSignalled /\ exiting
          /\ OnErrorAnswered(FALSE)
                => /\ continuing = pre.continuing
                   /\ pre.continuing => ~ExitSignalled /\ exiting = pre.exiting

\* quit_event fails on the close-requested path and the error is fatal.
C7_Witness ==
    /\ last = "window_event" /\ QuitReturned("Err")
    /\ OnErrorAnswered(TRUE) /\ exiting /\ ~pre.exiting

\* C8: if continuing is false at the start of a tick, after the quit
\* protocol if it ran, exit is signalled and no user callback is dispatched
\* during that tick.
C8_StoppedTickDispatchesNothing ==
    /\ (last = "new_events" /\ ~continuing) => ExitSignalled
    /\ (tick_stopped /\ last \in {"window_event", "device_event",
                                   "about_to_wait", "resumed", "suspended"})
          => NoCallback

----------------------------------------------------------------------------
(* Error policy *)

C10_ExitOnlyThroughOnError ==
    /\ exiting # pre.exiting => ExitSignalled
    /\ \A i \in Entries("exit") :
          \/ i > 1 /\ log[i - 1].op = "on_error" /\ log[i - 1].res = "true"
          \/ i > 2 /\ last = "new_events" /\ log[i - 1].op = "exit"
                   /\ log[i - 2].op = "on_error" /\ log[i - 2].res = "true"
          \/ last = "new_events" /\ ~continuing /\ i = Len(log)
          \/ /\ i > 2 /\ log[i - 1].op = "log" /\ log[i - 2].res = "Err"
             /\ log[i - 2].op = "ctx"
             /\ log[i - 2].arg \in {"gfx.begin_frame", "gfx.end_frame"}
    /\ (OnErrorAnswered(FALSE) /\ ~OnErrorAnswered(TRUE) /\ ~RendererFailed
           /\ ~(last = "new_events" /\ ~pre.continuing))
          => ~ExitSignalled /\ exiting = pre.exiting
                /\ (continuing # pre.continuing => QuitReturned("Ok(false)"))
    /\ (pre.continuing /\ ~continuing) => QuitReturned("Ok(false)")

\* update fails in a tick, on_error answers non-fatal, and the tick ends
\* without an exit signal.
C10_Witness ==
    /\ last = "about_to_wait"
    /\ \E i \in Entries("on_error") : log[i] = Ev("on_error", "Update", "false")
    /\ ~ExitSignalled /\ ~exiting /\ continuing

----------------------------------------------------------------------------
(* Frame driver *)

\* The entries of the log with operation op and name arg.
At(op, arg) == {i \in DOMAIN log : log[i].op = op /\ log[i].arg = arg}

\* The run of an about_to_wait received while Running.
FrameRan == last = "about_to_wait" /\ pre.app = "Running"

\* draw returned an error and on_error answered b.
DrawError(b) ==
    /\ \E i \in Entries("cb") : log[i] = Ev("cb", "draw", "Err")
    /\ \E j \in Entries("on_error") :
          log[j] = Ev("on_error", "Draw", IF b THEN "true" ELSE "false")

\* The three closing steps of the frame, in their order, end the log.
EndsWithResetAndSave ==
    /\ Len(log) >= 3
    /\ log[Len(log) - 2] = Ev("ctx", "mouse.reset_delta", "")
    /\ log[Len(log) - 1] = Ev("ctx", "keyboard.save_keyboard_state", "")
    /\ log[Len(log)]     = Ev("ctx", "mouse.save_mouse_state", "")

\* C11: in a tick where draw returns an error, if on_error(Draw) answers
\* fatal then end_frame is not invoked in that tick and exit is signalled;
\* if it answers non-fatal then end_frame is invoked, after draw, and the
\* tick completes with the delta reset and the state commit.
C11_DrawErrorAndEndFrame ==
    /\ DrawError(TRUE)
          => /\ At("ctx", "gfx.end_frame") = {}
             /\ ExitSignalled /\ exiting
             /\ log[Len(log)].op = "exit"
    /\ DrawError(FALSE)
          => /\ Cardinality(At("ctx", "gfx.end_frame")) = 1
             /\ \A i \in At("cb", "draw"), j \in At("ctx", "gfx.end_frame") :
                   i < j
             /\ EndsWithResetAndSave

\* draw fails, on_error answers non-fatal, end_frame succeeds and the tick
\* ends without an exit signal.
C11_Witness ==
    /\ FrameRan /\ DrawError(FALSE)
    /\ \E j \in At("ctx", "gfx.end_frame") : log[j].res = "Ok"
    /\ EndsWithResetAndSave /\ ~exiting

\* The place of an effect in the frame (0: a diagnostic, an on_error call, an
\* exit signal or a request_quit, which belong to the step before them).
Step(e) ==
    CASE e.op = "ctx" /\ e.arg = "time.tick"                    -> 1
      [] e.op = "ctx" /\ e.arg = "gamepad.next_event"           -> 2
      [] e.op = "cb" /\ e.arg \in {"gamepad_button_down_event",
                                   "gamepad_button_up_event",
                                   "gamepad_axis_event"}        -> 2
      [] e.op = "cb" /\ e.arg = "update"                        -> 3
      [] e.op = "ctx" /\ e.arg = "gfx.begin_frame"              -> 4
      [] e.op = "cb" /\ e.arg = "draw"                          -> 5
      [] e.op = "ctx" /\ e.arg = "gfx.end_frame"                -> 6
      [] e.op = "ctx" /\ e.arg = "mouse.reset_delta"            -> 7
      [] e.op = "ctx" /\ e.arg = "keyboard.save_keyboard_state" -> 8
      [] e.op = "ctx" /\ e.arg = "mouse.save_mouse_state"       -> 9
      [] e.op \in {"log", "on_error", "exit"}                   -> 0
      [] OTHER                                                  -> 10

\* C12: within a tick while Running, the discrete events are handled before
\* the frame driver, each with its state update before its callback; the
\* frame driver then runs clock tick, gamepad drain, update, begin_frame,
\* draw, end_frame, delta reset, keyboard and mouse commit in this order,
\* each step but the drain at most once.
C12_TickOrder ==
    /\ last \in {"window_event", "device_event"}
          => /\ hostpc = "events"
             /\ \A i \in Entries("ctx"), j \in Entries("cb") : i < j
    /\ FrameRan
          => /\ log # <<>> /\ Step(log[1]) = 1
             /\ \A i \in DOMAIN log : Step(log[i]) < 10
             /\ \A i, j \in DOMAIN log :
                   (i < j /\ Step(log[i]) > 0 /\ Step(log[j]) > 0)
                      => \/ Step(log[i]) < Step(log[j])
                         \/ Step(log[i]) = 2 /\ Step(log[j]) = 2
             /\ hostpc # "events"

\* A full frame after a gamepad event: every step of the frame happens.
C12_Witness ==
    /\ FrameRan
    /\ \A k \in 1..9 : \E i \in DOMAIN log : Step(log[i]) = k
    /\ Invoked("gamepad_axis_event")

\* Each of the three closing steps happened exactly once, after draw.
ResetAndSaveOnceAfterDraw ==
    \A a \in {"mouse.reset_delta", "keyboard.save_keyboard_state",
              "mouse.save_mouse_state"} :
       /\ Cardinality(At("ctx", a)) = 1
       /\ \E d \in At("cb", "draw") : \A i \in At("ctx", a) : d < i

\* None of the three closing steps happened.
NoResetNoSave ==
    \A a \in {"mouse.reset_delta", "keyboard.save_keyboard_state",
              "mouse.save_mouse_state"} : At("ctx", a) = {}

\* C13 as claimed: in every tick in which the frame driver runs, the delta
\* reset and the keyboard and mouse commits each happen exactly once and
\* after draw, whatever the callbacks of the tick returned.
C13_ResetAndSaveEveryTick ==
    FrameRan => ResetAndSaveOnceAfterDraw

\* C13 as amended: in a tick in which the frame driver runs and no callback
\* error is reported fatal, the delta reset and the two commits each happen
\* exactly once and after draw, whatever else the callbacks and the renderer
\* returned; when a gamepad callback, update or draw fails and on_error
\* answers fatal, the frame driver returns and none of the three happens.
C13_ResetAndSaveUnlessFatal ==
    FrameRan
       => /\ ~OnErrorAnswered(TRUE) => ResetAndSaveOnceAfterDraw
          /\ OnErrorAnswered(TRUE) => NoResetNoSave

\* update and draw both fail, on_error answers non-fatal to both, and the
\* renderer fails to end the frame: the reset and the commits still happen.
C13_Witness ==
    /\ FrameRan
    /\ \E i \in Entries("on_error") : log[i] = Ev("on_error", "Update", "false")
    /\ DrawError(FALSE)
    /\ \E j \in At("ctx", "gfx.end_frame") : log[j].res = "Err"
    /\ ResetAndSaveOnceAfterDraw

\* C14: a failure of begin_frame or end_frame is followed by its diagnostic
\* and by the exit signal, with no on_error call in between: exit is
\* signalled whether or not on_error was asked in that tick and whatever it
\* answered.
C14_RendererFailureExits ==
    \A i \in At("ctx", "gfx.begin_frame") \cup At("ctx", "gfx.end_frame") :
       log[i].res = "Err"
          => /\ i + 2 <= Len(log)
             /\ log[i + 1].op = "log" /\ log[i + 1].arg # "Draw"
             /\ log[i + 2].op = "exit"
             /\ exiting

\* begin_frame fails in a tick where update failed and on_error answered
\* non-fatal: the loop is told to exit all the same.
C14_Witness ==
    /\ FrameRan
    /\ \E i \in At("ctx", "gfx.begin_frame") : log[i].res = "Err"
    /\ OnErrorAnswered(FALSE) /\ ~OnErrorAnswered(TRUE)
    /\ exiting /\ ~pre.exiting

----------------------------------------------------------------------------
(* Event dispatch: what the callbacks are given *)

\* The arguments of the calls of name the handler made, in their order.
ArgsOf(name) ==
    SelectSeq(passed, LAMBDA c : c.name = name)

\* The handler ran in Running on a window or device event of the kind.
Dispatched(kind) ==
    /\ last \in {"window_event", "device_event"}
    /\ pre.app = "Running"
    /\ event.kind = kind

\* C15: a raw relative-motion device event with delta (dx, dy) delivered
\* while Running invokes raw_mouse_motion_event exactly once, with the
\* arguments (dx, dy) of that event.
C15_RawMotionForwarded ==
    Dispatched("MouseMotion")
       => /\ Cardinality(At("cb", "raw_mouse_motion_event")) = 1
          /\ Len(ArgsOf("raw_mouse_motion_event")) = 1
          /\ ArgsOf("raw_mouse_motion_event")[1].args = event.data

\* C18: a resized window event with size (w, h) delivered while Running
\* calls the renderer's resize with (w, h), once, and then resize_event with
\* (w, h), once.
C18_ResizeForwarded ==
    Dispatched("Resized")
       => /\ Cardinality(At("ctx", "gfx.resize")) = 1
          /\ Cardinality(At("cb", "resize_event")) = 1
          /\ \A i \in At("ctx", "gfx.resize"), j \in At("cb", "resize_event") :
                i < j
          /\ Len(ArgsOf("gfx.resize")) = 1
          /\ ArgsOf("gfx.resize")[1].args = event.data
          /\ Len(ArgsOf("resize_event")) = 1
          /\ ArgsOf("resize_event")[1].args = event.data

\* The window is resized to 800 x 600 and resize_event returns.
C18_Witness ==
    /\ Dispatched("Resized") /\ event.data = <<800, 600>>
    /\ \E i \in At("cb", "resize_event") : log[i].res = "Ok"
    /\ ArgsOf("resize_event")[1].args = <<800, 600>>

C17_JustPressedUntilSave ==
    /\ \A k \in Keys : is_key_just_pressed(keyboard, k) => k \in fresh
    /\ (FrameRan /\ ~OnErrorAnswered(TRUE))
          => \A k \in Keys : ~is_key_just_pressed(keyboard, k)

\* A key went down in a tick before, is still down, and the frame of this
\* tick has run to its end: the key is pressed and not just pressed.
C17_Witness ==
    /\ FrameRan /\ ~OnErrorAnswered(TRUE)
    /\ "KeyA" \in pre.keyboard.previous
    /\ "KeyA" \in keyboard.pressed
    /\ ~is_key_just_pressed(keyboard, "KeyA")

----------------------------------------------------------------------------
(* The default methods of EventHandler *)

\* C19: with the default key_down_event and quit_event, a Pressed key event
\* for Escape delivered while Running sets quit_requested and any other key
\* leaves it as it was; a quit request stays pending until the next tick
\* start, which runs quit_event, sets continuing to false and signals exit.
C19_EscapeQuits ==
    /\ Dispatched("KeyPressed")
          => /\ Invoked("key_down_event")
             /\ quit_requested =
                   (pre.quit_requested \/ event.data[1] = "Escape")
    /\ (last # "new_events" /\ pre.quit_requested) => quit_requested
    /\ (last = "new_events" /\ pre.quit_requested)
          => /\ QuitReturned("Ok(false)")
             /\ ~continuing /\ ExitSignalled /\ exiting

\* Escape goes down while Running with no quit pending.
C19_Witness ==
    /\ Dispatched("KeyPressed") /\ event.data[1] = "Escape"
    /\ ~pre.quit_requested /\ quit_requested /\ continuing

\* C20: with the default on_error and quit_event, every Err a callback
\* returns signals exit, and every close-requested window event delivered
\* while Running sets continuing to false.
C20_DefaultsStopTheLoop ==
    /\ (\E i \in Entries("cb") : log[i].res = "Err")
          => ExitSignalled /\ exiting
    /\ Dispatched("CloseRequested")
          => QuitReturned("Ok(false)") /\ ~continuing

\* A focus callback fails and the default on_error stops the loop.
C20_Witness ==
    /\ Dispatched("Focused")
    /\ \E i \in Entries("cb") : log[i] = Ev("cb", "focus_event", "Err")
    /\ ExitSignalled /\ exiting /\ ~pre.exiting

----------------------------------------------------------------------------
(* Lifecycle transitions *)

\* load was invoked and returned r.
LoadReturned(r) == \E i \in Entries("cb") : log[i] = Ev("cb", "load", r)

\* C21: when load returns an error in the resumed received in Starting,
\* on_error is invoked with the origin Load, the machine is Running
\* afterwards whether the error was fatal or not, and exit is signalled if
\* and only if on_error reported the error fatal.
C21_LoadError ==
    (last = "resumed" /\ pre.app = "Starting" /\ LoadReturned("Err"))
       => /\ app = "Running"
          /\ Cardinality(Entries("on_error")) = 1
          /\ \A i \in Entries("on_error") : log[i].arg = "Load"
          /\ ExitSignalled <=> OnErrorAnswered(TRUE)
          /\ exiting <=> (pre.exiting \/ OnErrorAnswered(TRUE))

\* load failed, on_error reported the error fatal, and the machine is Running.
C21_Witness ==
    /\ last = "resumed" /\ pre.app = "Starting" /\ LoadReturned("Err")
    /\ OnErrorAnswered(TRUE) /\ app = "Running" /\ exiting

\* The handler left the Context as it found it and made no call at all.
PayloadPreserved ==
    /\ log = <<>> /\ passed = <<>>
    /\ continuing = pre.continuing
    /\ quit_requested = pre.quit_requested
    /\ exiting = pre.exiting
    /\ mouse = pre.mouse
    /\ keyboard = pre.keyboard

\* C22: Running --suspended--> Suspended and Suspended --resumed--> Running
\* invoke no callback and leave the Context and the user's handler as they
\* were; a suspended received in Starting or Suspended changes neither the
\* lifecycle state nor the payload; Starting is never entered again.
C22_TransitionsPreservePayload ==
    /\ (last = "suspended" /\ pre.app = "Running")
          => app = "Suspended" /\ PayloadPreserved
    /\ (last = "resumed" /\ pre.app = "Suspended")
          => app = "Running" /\ PayloadPreserved
    /\ (last = "suspended" /\ pre.app # "Running")
          => app = pre.app /\ PayloadPreserved
    /\ pre.app # "Starting" => app # "Starting"
    /\ load_count > 0 => app # "Starting"

\* The loop is suspended while a key is held and a quit request is pending.
C22_Witness ==
    /\ last = "suspended" /\ pre.app = "Running" /\ app = "Suspended"
    /\ pre.quit_requested /\ keyboard.pressed # {}

\* C23: after every entry point has returned, the application slot holds
\* exactly one of Starting, Running, Suspended: the slot that resumed and
\* suspended empty while they run is filled again before they return, so
\* that no notification finds it empty on entry.
C23_SlotNeverEmpty ==
    /\ app \in AppStates
    /\ pre.app \in AppStates

\* A resumed has taken the Suspended application out of the slot and put
\* the Running one back.
C23_Witness ==
    /\ last = "resumed" /\ pre.app = "Suspended" /\ app = "Running"

----------------------------------------------------------------------------
(* Error policy: diagnostics *)

\* The tag the diagnostic of a failed call carries: the origin of a
\* callback, the name of a renderer call.
ErrorTag(e) ==
    IF e.op = "cb" THEN OriginOf(e.arg)
    ELSE IF e.arg = "gfx.begin_frame" THEN "begin_frame" ELSE "end_frame"

Failures == {i \in DOMAIN log : log[i].res = "Err"}

\* C24: the diagnostic naming the origin of an error is emitted before
\* on_error is invoked for it and before any exit signal it causes; no exit
\* follows an error without the diagnostic of that error in between.
C24_LoggedBeforeDecision ==
    /\ \A i \in Failures :
          /\ i < Len(log)
          /\ log[i + 1] = Ev("log", ErrorTag(log[i]), "")
    /\ \A i \in Entries("on_error") :
          i > 1 /\ log[i - 1] = Ev("log", log[i].arg, "")
    /\ \A i \in Entries("exit") : \A k \in Failures :
          k < i => \E j \in Entries("log") :
                      k < j /\ j < i /\ log[j].arg = ErrorTag(log[k])

\* A window event callback failed, on_error reported the error fatal and
\* exit was signalled.
C24_Witness ==
    /\ last = "window_event" /\ Failures # {} /\ OnErrorAnswered(TRUE)
    /\ ExitSignalled

----------------------------------------------------------------------------
(* The default touch_event *)

\* The callback name was invoked exactly once, with the arguments args.
InvokedOnceWith(name, args) ==
    /\ Cardinality(At("cb", name)) = 1
    /\ ArgsOf(name) = <<[name |-> name, args |-> args]>>

\* C25: with the default touch_event, a touch at (x, y) delivered while
\* Running sets the mouse position to (x, y); Started sets the left button
\* pressed and invokes mouse_button_down_event(Left, x, y), Moved invokes
\* mouse_motion_event(x, y, dx, dy) with the delta of the mouse, Ended and
\* Cancelled set the left button released and invoke
\* mouse_button_up_event(Left, x, y).
C25_TouchActsAsMouse ==
    Dispatched("Touch")
       => LET phase == event.data[1]
              x     == event.data[2]
              y     == event.data[3]
          IN /\ mouse.position = <<x, y>>
             /\ Cardinality(Entries("cb")) = 2
             /\ phase = "Started"
                   => /\ mouse.buttons = pre.mouse.buttons \cup {"Left"}
                      /\ InvokedOnceWith("mouse_button_down_event",
                                         <<"Left", x, y>>)
             /\ phase = "Moved"
                   => /\ mouse.buttons = pre.mouse.buttons
                      /\ InvokedOnceWith("mouse_motion_event",
                                         <<x, y, x - reset_position[1],
                                           y - reset_position[2]>>)
             /\ phase \in {"Ended", "Cancelled"}
                   => /\ mouse.buttons = pre.mouse.buttons \ {"Left"}
                      /\ InvokedOnceWith("mouse_button_up_event",
                                         <<"Left", x, y>>)

\* A touch that had set the left button pressed ends at another place.
C25_Witness ==
    /\ Dispatched("Touch") /\ event.data[1] = "Ended"
    /\ "Left" \in pre.mouse.buttons /\ "Left" \notin mouse.buttons
    /\ pre.mouse.position # mouse.position
    /\ Invoked("mouse_button_up_event")

----------------------------------------------------------------------------
(* Aborted ticks *)

\* The renderer call name failed.
RendererCallFailed(name) ==
    \E i \in At("ctx", name) : log[i].res = "Err"

\* C28: a tick in which begin_frame fails is aborted: draw is not invoked,
\* end_frame is not invoked, the mouse delta is not reset and the previous
\* states are not committed.
C28_BeginFrameFailureAborts ==
    (FrameRan /\ RendererCallFailed("gfx.begin_frame"))
       => /\ ~Invoked("draw")
          /\ At("ctx", "gfx.end_frame") = {}
          /\ NoResetNoSave

\* C29: once on_error has reported fatal for an error of the callback of a
\* window or device event, no further callback of the user is invoked,
\* also when the host delivers the remaining events and the about_to_wait
\* of the loop iteration in which exit was signalled.
C29_NoCallbackAfterFatalEvent ==
    (last # "none" /\ pre.fatal_event) => NoCallback

\* update returned an error and on_error answered b.
UpdateError(b) ==
    /\ \E i \in Entries("cb") : log[i] = Ev("cb", "update", "Err")
    /\ \E j \in Entries("on_error") :
          log[j] = Ev("on_error", "Update", IF b THEN "true" ELSE "false")

\* The frame after update, as in a tick without an error of update:
\* begin_frame, draw, and, unless draw failed fatally, end_frame and the
\* reset and saves, each once and in this order.
FrameGoesOn ==
    /\ Cardinality(At("ctx", "gfx.begin_frame")) = 1
    /\ Cardinality(At("cb", "draw")) = 1
    /\ \A u \in At("cb", "update"), b \in At("ctx", "gfx.begin_frame"),
          d \in At("cb", "draw") : u < b /\ b < d
    /\ IF DrawError(TRUE)
       THEN At("ctx", "gfx.end_frame") = {} /\ NoResetNoSave
       ELSE /\ Cardinality(At("ctx", "gfx.end_frame")) = 1
            /\ \A d \in At("cb", "draw"), e \in At("ctx", "gfx.end_frame") :
                  d < e
            /\ ResetAndSaveOnceAfterDraw
            /\ EndsWithResetAndSave

\* C30: in a tick where update returns an error, if on_error reports it
\* fatal then begin_frame, draw, end_frame, the delta reset and the state
\* commit do not happen in that tick and exit is signalled; if on_error
\* reports it non-fatal, the tick goes on with begin_frame, draw, end_frame
\* and the commit as in a tick without an error.
C30_UpdateError ==
    /\ (FrameRan /\ UpdateError(TRUE))
          => /\ At("ctx", "gfx.begin_frame") = {}
             /\ ~Invoked("draw")
             /\ At("ctx", "gfx.end_frame") = {}
             /\ NoResetNoSave
             /\ ExitSignalled /\ exiting
    /\ (FrameRan /\ UpdateError(FALSE)) => FrameGoesOn
    /\ (FrameRan /\ \E i \in Entries("cb") : log[i] = Ev("cb", "update", "Ok"))
          => FrameGoesOn

\* update failed, on_error reported the error non-fatal and the frame was
\* drawn and committed.
C30_Witness ==
    /\ FrameRan /\ UpdateError(FALSE) /\ Invoked("draw")
    /\ ~ExitSignalled /\ EndsWithResetAndSave

----------------------------------------------------------------------------
(* Audio: the play-time counter *)

\* C26: elapsed() reports the time played since the last call of play():
\* play() sets the counter to 0 and from then on the counter advances by one
\* query interval per periodic access of the playback that play() started
\* and of no other, also when play_detached() was called on the source
\* before and the sound it detached is still playing.
C26_ElapsedSinceLastPlay ==
    by_play => elapsed(TheSource) = own_time

\* C27 as claimed: the counter is read and written by atomic operations
\* only, and no operation on the source makes a read of elapsed() return
\* less than an earlier read.
C27_NeverDecreases ==
    last_read >= prev_read

\* C27: the counter is read and written by atomic operations only, each one
\* step; the closure of the playback thread only adds to it, so that a read
\* of elapsed() returns at least what the read before it returned unless
\* stop() has stored 0 between the two (alone or in play() or
\* play_detached()).
C27_DecreasesOnlyByStop ==
    ~reset_between => last_read >= prev_read

\* Two reads of elapsed() with periodic accesses and no stop() between them.
C27_Witness ==
    ~reset_between /\ prev_read > 0 /\ last_read > prev_read

----------------------------------------------------------------------------
(* The gamepad drain *)

GamepadCallbacks ==
    {"gamepad_button_down_event", "gamepad_button_up_event",
     "gamepad_axis_event"}

\* What the polls of the gamepad collaborator returned, in their order.
Polled ==
    LET polls == SelectSeq(log, LAMBDA e : e.op = "ctx"
                                           /\ e.arg = "gamepad.next_event")
    IN [i \in 1..Len(polls) |-> polls[i].res]

\* The gamepad callbacks invoked, in their order.
PadCalls ==
    LET calls == SelectSeq(log, LAMBDA e : e.op = "cb"
                                           /\ e.arg \in GamepadCallbacks)
    IN [i \in 1..Len(calls) |-> calls[i].arg]

\* The callbacks of the events s, one for each event that has one.
CallbacksFor(s) ==
    LET mapped == SelectSeq(s, LAMBDA e : PadCallback(e)[1] # "")
    IN [i \in 1..Len(mapped) |-> PadCallback(mapped[i])[1]]

\* on_error answered b to the error of a gamepad callback.
GamepadError(b) ==
    \E i \in Entries("on_error") :
       /\ log[i].arg \in {"GamepadButtonDownEvent", "GamepadButtonUpEvent",
                          "GamepadAxisEvent"}
       /\ log[i].res = (IF b THEN "true" ELSE "false")

\* C31: the drain of a tick polls the queued gamepad events in queue order
\* until the collaborator reports none, and leaves the queue empty; each
\* ButtonPressed, ButtonReleased, AxisChanged event invokes its callback
\* once, right after it was polled, and an event of another type invokes
\* nothing; an error reported fatal ends the drain and the tick, without
\* update and draw; after an error reported non-fatal the next event is
\* polled.
C31_GamepadDrain ==
    FrameRan
       => LET q == event.data
          IN /\ IF GamepadError(TRUE)
                THEN \E n \in 1..Len(q) :
                        /\ Polled = SubSeq(q, 1, n)
                        /\ pad_queue = SubSeq(q, n + 1, Len(q))
                        /\ PadCalls = CallbacksFor(SubSeq(q, 1, n))
                        /\ ~Invoked("update") /\ ~Invoked("draw")
                        /\ log[Len(log)].op = "exit"
                ELSE /\ Polled = q \o <<"None">>
                     /\ pad_queue = <<>>
                     /\ PadCalls = CallbacksFor(q)
                     /\ Invoked("update")
             /\ \A i \in Entries("cb") :
                   log[i].arg \in GamepadCallbacks
                      => /\ i > 1
                         /\ log[i - 1].op = "ctx"
                         /\ log[i - 1].arg = "gamepad.next_event"
                         /\ PadCallback(log[i - 1].res)[1] = log[i].arg
             /\ \A i \in Entries("on_error") :
                   (log[i].res = "false"
                      /\ log[i - 2].arg \in GamepadCallbacks)
                      => /\ i < Len(log)
                         /\ log[i + 1].op = "ctx"
                         /\ log[i + 1].arg = "gamepad.next_event"

\* Two events are queued; the callback of the first fails, on_error reports
\* the error non-fatal, and the second is polled and handled.
C31_Witness ==
    /\ FrameRan /\ Len(event.data) = 2
    /\ event.data[1] = "ButtonPressed" /\ event.data[2] = "AxisChanged"
    /\ GamepadError(FALSE) /\ ~GamepadError(TRUE)
    /\ PadCalls = <<"gamepad_button_down_event", "gamepad_axis_event">>
    /\ pad_queue = <<>>

----------------------------------------------------------------------------
(* Key events *)

\* C32: a Pressed key event delivered while Running sets the key pressed in
\* the keyboard context, by its logical and by its physical identity, before
\* the callback, and invokes key_down_event once, with a repeat flag that is
\* true exactly when the key was pressed already before this event.
C32_RepeatIffAlreadyPressed ==
    Dispatched("KeyPressed")
       => LET key == event.data[1]
          IN /\ keyboard.pressed = pre.keyboard.pressed \cup {key}
             /\ ArgsOf("keyboard.set_logical_key")
                   = <<[name |-> "keyboard.set_logical_key",
                        args |-> <<key, TRUE>>]>>
             /\ Cardinality(At("ctx", "keyboard.set_logical_key")) = 1
             /\ Cardinality(At("ctx", "keyboard.set_physical_key")) = 1
             /\ \A i \in Entries("ctx"), j \in At("cb", "key_down_event") :
                   i < j
             /\ InvokedOnceWith("key_down_event",
                                <<key, key \in pre.keyboard.pressed>>)

\* A key that is held and was saved as pressed at the end of a tick is
\* pressed again: key_down_event is told of a repeat.
C32_Witness ==
    /\ Dispatched("KeyPressed") /\ event.data[1] = "KeyA"
    /\ "KeyA" \in pre.keyboard.pressed /\ "KeyA" \in pre.keyboard.previous
    /\ ArgsOf("key_down_event")[1].args = <<"KeyA", TRUE>>

----------------------------------------------------------------------------
(* Events without a callback *)

\* The kinds of window event no arm of window_event forwards to a callback.
Unmatched == {"ScaleFactorChanged", "Other"}

\* C33: a window event of a kind that has no row in the dispatch table, and
\* a modifiers-changed event, delivered while Running, invoke no callback
\* and no on_error, signal no exit and leave continuing and quit_requested
\* as they were; a modifiers-changed event stores the set of active
\* modifiers it carries and does nothing else.
C33_UnmatchedIsSilent ==
    /\ (Dispatched("ScaleFactorChanged") \/ Dispatched("Other")
           \/ Dispatched("ModifiersChanged"))
          => /\ NoCallback
             /\ Entries("on_error") = {} /\ Entries("log") = {}
             /\ ~ExitSignalled /\ exiting = pre.exiting
             /\ continuing = pre.continuing
             /\ quit_requested = pre.quit_requested
             /\ mouse = pre.mouse
    /\ (\E k \in Unmatched : Dispatched(k))
          => log = <<>> /\ keyboard = pre.keyboard
    /\ Dispatched("ModifiersChanged")
          => /\ \A i \in DOMAIN log :
                   log[i] = Ev("ctx", "keyboard.active_modifiers", "")
             /\ \A i \in DOMAIN passed : passed[i].args = event.data
             /\ keyboard = [pre.keyboard EXCEPT
                               !.active_modifiers = event.data[1]]

\* Shift goes down while a key is held and a quit request is pending.
C33_Witness ==
    /\ Dispatched("ModifiersChanged") /\ event.data[1] = {"Shift"}
    /\ pre.keyboard.active_modifiers = {}
    /\ keyboard.active_modifiers = {"Shift"}
    /\ keyboard.pressed # {} /\ quit_requested

----------------------------------------------------------------------------
(* Who writes the Context *)

\* C34 as claimed: each part of the Context is written by one component
\* only; the continuing flag is written by the frame driver (taken with the
\* start of its tick) and by no other component: not by a lifecycle
\* transition, not by the dispatch of an event, not by the quit handling of
\* a dispatched event.
C34_OnlyFrameDriverWritesContinuing ==
    continuing # pre.continuing => last \in {"new_events", "about_to_wait"}

\* C34: the continuing flag is written by the quit protocol only, at the
\* start of a tick and on a close-requested window event, each when
\* quit_event has returned Ok(false), and it is set to false; the frame
\* driver, the lifecycle transitions and the dispatch of every other event
\* leave it as it was.  The key state of the keyboard is written by the
\* dispatch of key and modifier events, and its previous-tick snapshot by
\* the frame driver.
C34_QuitProtocolWritesContinuing ==
    /\ continuing # pre.continuing
          => /\ \/ last = "new_events"
                \/ Dispatched("CloseRequested")
             /\ QuitReturned("Ok(false)")
             /\ pre.continuing /\ ~continuing
    /\ last \in {"about_to_wait", "resumed", "suspended", "device_event"}
          => continuing = pre.continuing
    /\ keyboard # pre.keyboard
          => \/ Dispatched("KeyPressed") \/ Dispatched("KeyReleased")
             \/ Dispatched("ModifiersChanged")
             \/ FrameRan /\ At("ctx", "keyboard.save_keyboard_state") # {}
    /\ (Dispatched("KeyPressed") \/ Dispatched("KeyReleased")
           \/ Dispatched("ModifiersChanged"))
          => keyboard.previous = pre.keyboard.previous
    /\ FrameRan
          => /\ keyboard.pressed = pre.keyboard.pressed
             /\ keyboard.active_modifiers = pre.keyboard.active_modifiers

\* A close request is accepted while a key is held: the dispatch of the
\* event, not the frame driver, sets continuing to false.
C34_Witness ==
    /\ Dispatched("CloseRequested") /\ QuitReturned("Ok(false)")
    /\ pre.continuing /\ ~continuing /\ keyboard.pressed # {}

----------------------------------------------------------------------------
(* Audio: the fade-in *)

\* C35: for a Source and for a SpatialSource and every fade-in time d set,
\* the fade-in play_later gives the sound is d when d > 0 and one
\* microsecond when d = 0, so that the two give the same fade-in for the
\* same d.
C35_FadeInApplied ==
    /\ \A k \in SourceKinds :
          applied[k] # NoSound
             => applied[k].fade = (IF applied[k].of = from_micros(0)
                                   THEN from_micros(1) ELSE applied[k].of)
    /\ (/\ applied["Source"] # NoSound
        /\ applied["SpatialSource"] # NoSound
        /\ applied["Source"].of = applied["SpatialSource"].of)
          => applied["Source"].fade = applied["SpatialSource"].fade

----------------------------------------------------------------------------
(* Events outside Running *)

\* C36: a window or device event delivered in Starting or Suspended leaves
\* the whole Context as it was: no key or modifier, no position, button or
\* delta of the mouse, no viewport, neither continuing nor quit_requested
\* is written, and no call is made on a sub-context.
C36_ContextUntouchedOutsideRunning ==
    (last \in {"window_event", "device_event"} /\ pre.app # "Running")
       => /\ PayloadPreserved
          /\ app = pre.app

\* A key goes down while the loop is suspended: the keyboard context does
\* not get to know of it.
C36_Witness ==
    /\ last = "window_event" /\ pre.app = "Suspended"
    /\ event.kind = "KeyPressed" /\ event.data[1] = "KeyA"
    /\ "KeyA" \notin keyboard.pressed /\ "Escape" \in keyboard.pressed

----------------------------------------------------------------------------
(* Before load *)

\* C37: as long as load has not been invoked, the machine is in Starting
\* and the only callback of the user that is invoked is quit_event, by the
\* check at the start of a tick when a quit is requested, with on_error for
\* its error; update, draw and the callbacks of the input events are
\* invoked only once load has been invoked.
C37_OnlyQuitBeforeLoad ==
    /\ load_count = 0
          => /\ app = "Starting"
             /\ \A i \in Entries("cb") : log[i].arg = "quit_event"
             /\ \A i \in Entries("on_error") : log[i].arg = "QuitEvent"
             /\ ~NoCallback => last = "new_events" /\ pre.quit_requested
    /\ (\E i \in Entries("cb") : log[i].arg \notin {"load", "quit_event"})
          => load_count = 1 /\ pre.app = "Running"
    /\ Invoked("load") => pre.app = "Starting" /\ load_count = 1

\* A quit requested before the loop was run is cancelled by quit_event at
\* the first tick start, before load.
C37_Witness ==
    /\ load_count = 0 /\ app = "Starting" /\ last = "new_events"
    /\ QuitReturned("Ok(true)") /\ continuing /\ ~quit_requested

----------------------------------------------------------------------------
(* The continuing flag *)

\* C38: no entry point sets continuing from false to true: once it is
\* false it stays false, and the start of every tick that finds it false,
\* after the quit protocol if that ran, signals exit and does not set the
\* control flow to Poll.
C38_ContinuingNeverRevived ==
    /\ ~pre.continuing => ~continuing
    /\ (last = "new_events" /\ ~pre.continuing)
          => /\ ExitSignalled /\ exiting
             /\ Entries("control_flow") = {}
             /\ log[Len(log)].op = "exit"

\* A tick starts with continuing false and a quit request pending;
\* quit_event cancels the quit, and the loop is told to exit all the same.
C38_Witness ==
    /\ last = "new_events" /\ ~pre.continuing /\ pre.quit_requested
    /\ QuitReturned("Ok(true)") /\ ~continuing /\ ExitSignalled

----------------------------------------------------------------------------
(* Errors of the mouse callbacks the default touch_event invokes *)

\* The mouse callback the default touch_event invoked returned an error.
SynthesizedFailed ==
    /\ Dispatched("Touch")
    /\ \E i \in At("cb", TouchCallback(event.data[1])) : log[i].res = "Err"

\* C39: with the default touch_event, an error the mouse callback invoked
\* from touch_event returns is logged and handed to on_error exactly once,
\* with the origin TouchEvent; the mouse position and the state of the left
\* button written before the callback stay written.
C39_SynthesizedErrorIsTouchError ==
    SynthesizedFailed
       => /\ Cardinality(Entries("on_error")) = 1
          /\ Cardinality(Entries("log")) = 1
          /\ \A i \in Entries("on_error") \cup Entries("log") :
                /\ log[i].arg = "TouchEvent"
                /\ \A j \in Entries("cb") : j < i
          /\ mouse.position = <<event.data[2], event.data[3]>>
          /\ mouse.buttons =
                CASE event.data[1] = "Started"
                       -> pre.mouse.buttons \cup {"Left"}
                  [] event.data[1] = "Moved" -> pre.mouse.buttons
                  [] OTHER -> pre.mouse.buttons \ {"Left"}

\* mouse_button_down_event, invoked for a touch that starts at a place the
\* mouse was not at, fails; the left button is pressed all the same.
C39_Witness ==
    /\ SynthesizedFailed /\ event.data[1] = "Started"
    /\ "Left" \notin pre.mouse.buttons /\ "Left" \in mouse.buttons
    /\ pre.mouse.position # mouse.position
    /\ At("on_error", "TouchEvent") # {}

----------------------------------------------------------------------------
(* The counter after stop() *)

\* C40: once stop() has returned, elapsed() is 0 and stays 0, whatever the
\* playback thread does, until play_later(), play() or play_detached()
\* starts a playback.
C40_ZeroAfterStop ==
    after_stop => elapsed(TheSource) = 0

====
